---- MODULE Spec2Model ----
(***************************************************************************)
(* Standings screen of the Parkland pickleball league client               *)
(* (src/app/(tabs)/standings.tsx, the later of the two revisions in the    *)
(* file, lines 711-1535).                                                   *)
(*                                                                         *)
(* Strings are sequences of one-character strings, so that trimming,       *)
(* parsing and collation are computed and not assumed.  The state is the   *)
(* React state of StandingsScreen; `computed` (a useMemo of that state) is *)
(* the operator Computed.                                                   *)
(***************************************************************************)
EXTENDS Integers, Sequences, FiniteSets, TLC

VARIABLES matches, scores, baseRows, divisionMoves, dbTeams,
          teamsLoadError, matchesLoadError, scoresLoadError, baseLoadError

\* Schedule builder (src/app/(tabs)/admin-schedule.tsx, lines 1-1300): the
\* backend table of matches in created_at_ms order, the legacy matches and
\* the migration flag of the device, and the React state of
\* AdminScheduleScreen; confirmDialog is the open confirmation, mounted
\* tells that the mount effect has run, writes counts the writes of doSave
\* and deleteMatch that reached the backend.
VARIABLES matchesTable, legacyMatches, migrated, mounted, writes,
          savedMatches, week, division, time, court, teamA, teamB, editingId,
          attendance, statusMsg, errorMsg, confirmDialog,
          listWeekFilter, showClearWeekConfirm, clearWeekConfirmText

\* Scoring screen (src/unnamed/part_005, ScoringScreen): the match_scores
\* table of the backend, the identity of the client, the draft edits (the
\* state called scores in the source), the persisted scores as last
\* fetched, the open Verify & Save confirmation and the last alert shown.
VARIABLES matchScoresTable, isAdmin, myTeam, myPlayerName, draftScores, persisted,
          verifyDialog, lastAlert

\* Attendance screen (src/unnamed/part_008, AdminAttendanceScreen): the
\* attendance table of the backend, a set of rows with one row at most for a
\* week and a team, and the week and the attendance map of the screen.
VARIABLES attendanceTable, attendanceWeek, attendanceMap

\* Reloads of the standings screen in flight (standings.tsx 1139-1148 and
\* 1209-1223): the rows of the matches table as the backend holds them, the
\* refreshMatches calls that have not completed yet, each with the answer the
\* backend gave it, and how many were started.  The calls are numbered in
\* the order they were started; shown is the number of the call whose
\* response the screen holds, newestDone the highest number of a completed call
\* and newestMatches the list that call delivered.
VARIABLES matchRows, requests, issued, shown, newestDone, newestMatches

\* Manage Teams screen (src/unnamed/part_006): the teams table of the
\* backend, the AsyncStorage of the device (matches, scores, division moves
\* and the attendance of each week) and the React state of the screen.
VARIABLES teamsTable, storedMatches, storedScores, storedMoves, storedAttendance,
          adminDbTeams, showDeleteBox, deleteTeamName, deleteTeamId, deleteConfirmText,
          adminStatus, adminError

\* One row of the match_scores table and what each of its three readers
\* made of it: the scoring screen (src/unnamed/part_005), the results screen
\* (src/app/(tabs)/_layout.tsx) and the standings aggregator (standings.tsx).
\* A reading is Null until the reader has loaded the row.
VARIABLES storedScoreRow, scoringReading, resultsReading, standingsReading

standingsVars == <<matches, scores, baseRows, divisionMoves, dbTeams,
                   teamsLoadError, matchesLoadError, scoresLoadError, baseLoadError>>

scheduleVars == <<matchesTable, legacyMatches, migrated, mounted, writes,
                  savedMatches, week, division, time, court, teamA, teamB, editingId,
                  attendance, statusMsg, errorMsg, confirmDialog,
                  listWeekFilter, showClearWeekConfirm, clearWeekConfirmText>>

scoringVars == <<matchScoresTable, isAdmin, myTeam, myPlayerName, draftScores, persisted,
                 verifyDialog, lastAlert>>

attendanceVars == <<attendanceTable, attendanceWeek, attendanceMap>>

reloadVars == <<matchRows, requests, issued, shown, newestDone, newestMatches>>

deviceVars == <<storedMatches, storedScores, storedMoves, storedAttendance>>

teamAdminVars == <<teamsTable, deviceVars, adminDbTeams, showDeleteBox, deleteTeamName,
                   deleteTeamId, deleteConfirmText, adminStatus, adminError>>

scoreRowVars == <<storedScoreRow, scoringReading, resultsReading, standingsReading>>

\* the state of the screens that came after the first three
laterVars == <<attendanceVars, reloadVars, teamAdminVars, scoreRowVars>>

vars == <<standingsVars, scheduleVars, scoringVars, laterVars>>

outsideStandings == <<scheduleVars, scoringVars, laterVars>>

outsideSchedule == <<standingsVars, scoringVars, laterVars>>

outsideScoring == <<standingsVars, scheduleVars, laterVars>>

----------------------------------------------------------------------------
(* Bounds of the model *)

MaxWeek == 3

MaxBaseStat == 1

----------------------------------------------------------------------------
(* Strings *)

Digits == {"0", "1", "2", "3", "4", "5", "6", "7", "8", "9"}

DigitVal(c) ==
    CASE c = "0" -> 0 [] c = "1" -> 1 [] c = "2" -> 2 [] c = "3" -> 3
      [] c = "4" -> 4 [] c = "5" -> 5 [] c = "6" -> 6 [] c = "7" -> 7
      [] c = "8" -> 8 [] c = "9" -> 9

IsSpace(c) == c = " "

RECURSIVE TrimStart(_)
TrimStart(s) ==
    IF s = <<>> THEN <<>>
    ELSE IF IsSpace(Head(s)) THEN TrimStart(Tail(s)) ELSE s

RECURSIVE TrimEnd(_)
TrimEnd(s) ==
    IF s = <<>> THEN <<>>
    ELSE IF IsSpace(s[Len(s)]) THEN TrimEnd(SubSeq(s, 1, Len(s) - 1)) ELSE s

\* String.prototype.trim
Trim(s) == TrimEnd(TrimStart(s))

\* parseInt(s, 10): leading white space is skipped, then the longest prefix
\* of decimal digits is read; no digit gives NaN.
NaN == [finite |-> FALSE, n |-> 0]

RECURSIVE DigitPrefix(_)
DigitPrefix(s) ==
    IF s = <<>> THEN <<>>
    ELSE IF Head(s) \in Digits THEN <<Head(s)>> \o DigitPrefix(Tail(s)) ELSE <<>>

RECURSIVE DigitsValue(_)
DigitsValue(ds) ==
    IF ds = <<>> THEN 0
    ELSE 10 * DigitsValue(SubSeq(ds, 1, Len(ds) - 1)) + DigitVal(ds[Len(ds)])

parseInt(s) ==
    LET ds == DigitPrefix(TrimStart(s))
    IN  IF ds = <<>> THEN NaN ELSE [finite |-> TRUE, n |-> DigitsValue(ds)]

\* String.prototype.localeCompare on the letters used here: the letters are
\* compared without regard to case first (space before every letter), and
\* strings equal up to case are ordered lower case first.
LowerOf(c) == IF c = "A" THEN "a" ELSE IF c = "B" THEN "b" ELSE c

CharRank(c) ==
    CASE c = " " -> 0 [] c = "a" -> 1 [] c = "b" -> 2 [] c = "c" -> 3
      [] c = "p" -> 4 [] c = "q" -> 5 [] c = "r" -> 6 [] OTHER -> 7

IsUpper(c) == c \in {"A", "B"}

RECURSIVE comparePrimary(_, _)
comparePrimary(x, y) ==
    IF x = <<>> /\ y = <<>> THEN 0
    ELSE IF x = <<>> THEN -1
    ELSE IF y = <<>> THEN 1
    ELSE LET cx == CharRank(LowerOf(Head(x)))
             cy == CharRank(LowerOf(Head(y)))
         IN  IF cx < cy THEN -1
             ELSE IF cx > cy THEN 1
             ELSE comparePrimary(Tail(x), Tail(y))

RECURSIVE compareCase(_, _)
compareCase(x, y) ==
    IF x = <<>> \/ y = <<>> THEN 0
    ELSE IF IsUpper(Head(x)) = IsUpper(Head(y)) THEN compareCase(Tail(x), Tail(y))
    ELSE IF IsUpper(Head(x)) THEN 1 ELSE -1

localeCompare(x, y) ==
    LET p == comparePrimary(x, y)
    IN  IF p # 0 THEN p ELSE compareCase(x, y)

----------------------------------------------------------------------------
(* Types and constants of standings.tsx *)

Division == {"Beginner", "Intermediate", "Advanced"}

START_WEEK_FOR_AUTOCALC == 2

DIVISION_ORDER == <<"Advanced", "Intermediate", "Beginner">>

\* The hardcoded roster, reduced to one team per division.
TeamP == <<"p">>
TeamQ == <<"q">>
TeamR == <<"r">>

DEFAULT_TEAMS_BY_DIVISION ==
    [Advanced |-> <<TeamP>>, Intermediate |-> <<TeamQ>>, Beginner |-> <<TeamR>>]

NULL == "null"

----------------------------------------------------------------------------
(* Helpers of standings.tsx *)

normalizeName(s) == Trim(s)

isDivision(v) == v \in Division

RECURSIVE Uniq(_)
\* new Set(list): the distinct elements in order of first occurrence
Uniq(list) ==
    IF list = <<>> THEN <<>>
    ELSE LET init == Uniq(SubSeq(list, 1, Len(list) - 1))
             x    == list[Len(list)]
         IN  IF \E i \in 1..Len(init) : init[i] = x THEN init ELSE Append(init, x)

RECURSIVE insertName(_, _)
\* one step of a stable sort by localeCompare
insertName(sorted, x) ==
    IF sorted = <<>> THEN <<x>>
    ELSE IF localeCompare(sorted[Len(sorted)], x) <= 0 THEN Append(sorted, x)
    ELSE Append(insertName(SubSeq(sorted, 1, Len(sorted) - 1), x), sorted[Len(sorted)])

RECURSIVE sortNames(_)
sortNames(list) ==
    IF list = <<>> THEN <<>>
    ELSE insertName(sortNames(SubSeq(list, 1, Len(list) - 1)), list[Len(list)])

FilterNonEmpty(list) == SelectSeq(list, LAMBDA x : x # <<>>)

MapNormalize(list) == [i \in 1..Len(list) |-> normalizeName(list[i])]

uniqSorted(list) == sortNames(Uniq(FilterNonEmpty(MapNormalize(list))))

toN(s) ==
    LET n == parseInt(IF s = <<>> THEN <<"0">> ELSE s)
    IN  IF n.finite THEN n.n ELSE 0

\* the superseded rule: a score is entered when it is not zero
isEnteredScoreNonZero(v) == toN(v) # 0

isEnteredScore(v) == Trim(v) # <<>>

\* a variant that takes a score entered by one side for a played game
gameEnteredPairEither(a, b) == isEnteredScore(a) \/ isEnteredScore(b)

gameEnteredPair(a, b) == isEnteredScore(a) /\ isEnteredScore(b)

RECURSIVE getMaxVerifiedWeekFrom(_, _, _)
getMaxVerifiedWeekFrom(ms, sc, max) ==
    IF ms = <<>> THEN max
    ELSE LET m == Head(ms)
         IN  IF m.id \notin DOMAIN sc \/ ~sc[m.id].verified
             THEN getMaxVerifiedWeekFrom(Tail(ms), sc, max)
             ELSE getMaxVerifiedWeekFrom(Tail(ms), sc, IF m.week > max THEN m.week ELSE max)

getMaxVerifiedWeek(ms, sc) == getMaxVerifiedWeekFrom(ms, sc, 1)

RECURSIVE bestMoveAnyWeek(_, _, _, _)
\* a variant of the loop that also takes moves of later weeks
bestMoveAnyWeek(team, asOfWeek, moves, best) ==
    IF moves = <<>> THEN best
    ELSE LET mv == Head(moves)
         IN  IF normalizeName(mv.team) # normalizeName(team)
             THEN bestMoveAnyWeek(team, asOfWeek, Tail(moves), best)
             ELSE IF best = <<>>
             THEN bestMoveAnyWeek(team, asOfWeek, Tail(moves), <<mv>>)
             ELSE IF mv.effectiveWeek > best[1].effectiveWeek
             THEN bestMoveAnyWeek(team, asOfWeek, Tail(moves), <<mv>>)
             ELSE bestMoveAnyWeek(team, asOfWeek, Tail(moves), best)

RECURSIVE bestMoveIgnoreCase(_, _, _, _)
\* a variant of the loop that compares the names without regard to case
bestMoveIgnoreCase(team, asOfWeek, moves, best) ==
    IF moves = <<>> THEN best
    ELSE LET mv    == Head(moves)
             lower(n) == [i \in 1..Len(n) |-> LowerOf(n[i])]
         IN  IF lower(normalizeName(mv.team)) # lower(normalizeName(team))
             THEN bestMoveIgnoreCase(team, asOfWeek, Tail(moves), best)
             ELSE IF mv.effectiveWeek > asOfWeek
             THEN bestMoveIgnoreCase(team, asOfWeek, Tail(moves), best)
             ELSE IF best = <<>>
             THEN bestMoveIgnoreCase(team, asOfWeek, Tail(moves), <<mv>>)
             ELSE IF mv.effectiveWeek > best[1].effectiveWeek
             THEN bestMoveIgnoreCase(team, asOfWeek, Tail(moves), <<mv>>)
             ELSE bestMoveIgnoreCase(team, asOfWeek, Tail(moves), best)

RECURSIVE bestMove(_, _, _, _)
\* the loop of getDivisionForTeamAsOfWeek; best is <<>> (null) or <<move>>
bestMove(team, asOfWeek, moves, best) ==
    IF moves = <<>> THEN best
    ELSE LET mv == Head(moves)
         IN  IF normalizeName(mv.team) # normalizeName(team)
             THEN bestMove(team, asOfWeek, Tail(moves), best)
             ELSE IF mv.effectiveWeek > asOfWeek
             THEN bestMove(team, asOfWeek, Tail(moves), best)
             ELSE IF best = <<>>
             THEN bestMove(team, asOfWeek, Tail(moves), <<mv>>)
             ELSE IF mv.effectiveWeek > best[1].effectiveWeek
             THEN bestMove(team, asOfWeek, Tail(moves), <<mv>>)
             ELSE bestMove(team, asOfWeek, Tail(moves), best)

getDivisionForTeamAsOfWeek(team, asOfWeek, moves) ==
    LET best == bestMove(team, asOfWeek, moves, <<>>)
    IN  IF best = <<>> THEN NULL ELSE best[1].toDivision

InList(list, t) == \E i \in 1..Len(list) : normalizeName(list[i]) = t

getBaselineDivision(team) ==
    LET t == normalizeName(team)
    IN  IF InList(DEFAULT_TEAMS_BY_DIVISION.Advanced, t) THEN "Advanced"
        ELSE IF InList(DEFAULT_TEAMS_BY_DIVISION.Intermediate, t) THEN "Intermediate"
        ELSE IF InList(DEFAULT_TEAMS_BY_DIVISION.Beginner, t) THEN "Beginner"
        ELSE NULL

----------------------------------------------------------------------------
(* Rows as the backend returns them.  A JSON value that may be null is <<>>
   when it is null and <<v>> when it is the value v. *)

Null == <<>>

Some(v) == <<v>>

orElse(v, d) == IF v = Null THEN d ELSE v[1]

\* fetchTeamsFromSupabase: the rows grouped by division, others dropped
groupTeams(rows) ==
    [d \in Division |-> SelectSeq(rows, LAMBDA r : isDivision(r.division) /\ r.division = d)]

\* fetchMatchesFromSupabase: the rows with a valid division, in order
parseMatches(rows) ==
    LET kept == SelectSeq(rows, LAMBDA r : isDivision(r.division))
    IN  [i \in 1..Len(kept) |->
            [id |-> kept[i].id, week |-> kept[i].week, division |-> kept[i].division,
             time |-> kept[i].time, court |-> kept[i].court,
             teamA |-> kept[i].team_a, teamB |-> kept[i].team_b]]

asScoreFields(v) ==
    [g1 |-> orElse(v.g1, <<>>), g2 |-> orElse(v.g2, <<>>), g3 |-> orElse(v.g3, <<>>)]

\* fetchMatchScoresFromSupabase: one entry per match id, the last row wins
RECURSIVE parseScoresInto(_, _)
parseScoresInto(out, rows) ==
    IF rows = <<>> THEN out
    ELSE LET r   == Head(rows)
             row == [matchId  |-> r.match_id,
                     teamA    |-> asScoreFields(r.team_a),
                     teamB    |-> asScoreFields(r.team_b),
                     verified |-> r.verified]
         IN  parseScoresInto([k \in DOMAIN out \cup {r.match_id} |->
                                 IF k = r.match_id THEN row ELSE out[k]],
                             Tail(rows))

parseScores(rows) == parseScoresInto([k \in {} |-> 0], rows)

\* fetchStandingsBaseFromSupabase: Number(x ?? 0) || 0 for each statistic
baseRowOf(r) ==
    [division      |-> r.division,
     team          |-> normalizeName(r.team),
     gamesPlayed   |-> orElse(r.games_played, 0),
     wins          |-> orElse(r.wins, 0),
     losses        |-> orElse(r.losses, 0),
     pointsFor     |-> orElse(r.points_for, 0),
     pointsAgainst |-> orElse(r.points_against, 0)]

parseBase(rows) ==
    LET kept == SelectSeq(rows, LAMBDA r : isDivision(r.division) /\ normalizeName(r.team) # <<>>)
    IN  [i \in 1..Len(kept) |-> baseRowOf(kept[i])]

\* loadAdminData, division moves: Number(r.effective_week ?? 1) || 1
moveOf(r) ==
    [id            |-> r.id,
     team          |-> r.team,
     fromDivision  |-> r.from_division,
     toDivision    |-> r.to_division,
     effectiveWeek |-> LET w == orElse(r.effective_week, 1) IN IF w = 0 THEN 1 ELSE w]

parseMoves(rows) ==
    LET kept == SelectSeq(rows, LAMBDA r : r.team # <<>> /\ isDivision(r.from_division)
                                           /\ isDivision(r.to_division))
    IN  [i \in 1..Len(kept) |-> moveOf(kept[i])]

----------------------------------------------------------------------------
(* The totals map: a Map keyed by team name, kept in insertion order *)

IndexOfTeam(map, key) ==
    IF \E i \in 1..Len(map) : map[i].team = key
    THEN CHOOSE i \in 1..Len(map) : map[i].team = key
    ELSE 0

\* a variant that keeps one entry per team and division
addTotalsPerDivision(map, add) ==
    LET key == normalizeName(add.team)
        hit == {i \in 1..Len(map) : map[i].team = key /\ map[i].originalDivision = add.originalDivision}
    IN  IF key = <<>> THEN map
        ELSE IF hit = {}
        THEN Append(map, [team             |-> key,
                          originalDivision |-> add.originalDivision,
                          gamesPlayed      |-> add.gamesPlayed,
                          wins             |-> add.wins,
                          losses           |-> add.losses,
                          pointsFor        |-> add.pointsFor,
                          pointsAgainst    |-> add.pointsAgainst])
        ELSE LET i == CHOOSE j \in hit : TRUE
             IN  [map EXCEPT ![i] =
                     [team             |-> map[i].team,
                      originalDivision |-> map[i].originalDivision,
                      gamesPlayed      |-> map[i].gamesPlayed + add.gamesPlayed,
                      wins             |-> map[i].wins + add.wins,
                      losses           |-> map[i].losses + add.losses,
                      pointsFor        |-> map[i].pointsFor + add.pointsFor,
                      pointsAgainst    |-> map[i].pointsAgainst + add.pointsAgainst]]

\* a variant in which the division of the latest addition replaces the
\* original division
addTotalsLastDivision(map, add) ==
    LET key == normalizeName(add.team)
        i   == IndexOfTeam(map, key)
        new == [team             |-> key,
                originalDivision |-> add.originalDivision,
                gamesPlayed      |-> add.gamesPlayed,
                wins             |-> add.wins,
                losses           |-> add.losses,
                pointsFor        |-> add.pointsFor,
                pointsAgainst    |-> add.pointsAgainst]
    IN  IF key = <<>> THEN map
        ELSE IF i = 0 THEN Append(map, new)
        ELSE [map EXCEPT ![i] =
                 [new EXCEPT !.gamesPlayed   = map[i].gamesPlayed + add.gamesPlayed,
                             !.wins          = map[i].wins + add.wins,
                             !.losses        = map[i].losses + add.losses,
                             !.pointsFor     = map[i].pointsFor + add.pointsFor,
                             !.pointsAgainst = map[i].pointsAgainst + add.pointsAgainst]]

addTotals(map, add) ==
    LET key == normalizeName(add.team)
        i   == IndexOfTeam(map, key)
    IN  IF key = <<>> THEN map
        ELSE IF i = 0
        THEN Append(map, [team             |-> key,
                          originalDivision |-> IF add.originalDivision = NULL
                                               THEN "Beginner" ELSE add.originalDivision,
                          gamesPlayed      |-> add.gamesPlayed,
                          wins             |-> add.wins,
                          losses           |-> add.losses,
                          pointsFor        |-> add.pointsFor,
                          pointsAgainst    |-> add.pointsAgainst])
        ELSE [map EXCEPT ![i] =
                 [team             |-> map[i].team,
                  originalDivision |-> IF map[i].originalDivision # NULL
                                       THEN map[i].originalDivision
                                       ELSE IF add.originalDivision = NULL
                                            THEN "Beginner" ELSE add.originalDivision,
                  gamesPlayed      |-> map[i].gamesPlayed + add.gamesPlayed,
                  wins             |-> map[i].wins + add.wins,
                  losses           |-> map[i].losses + add.losses,
                  pointsFor        |-> map[i].pointsFor + add.pointsFor,
                  pointsAgainst    |-> map[i].pointsAgainst + add.pointsAgainst]]

----------------------------------------------------------------------------
(* StandingsScreen: the memoised values *)

RECURSIVE setRows(_, _, _)
setRows(map, rows, div) ==
    IF rows = <<>> THEN map
    ELSE LET name == normalizeName(Head(rows).name)
         IN  IF name = <<>> THEN setRows(map, Tail(rows), div)
             ELSE setRows([k \in DOMAIN map \cup {name} |-> IF k = name THEN div ELSE map[k]],
                          Tail(rows), div)

RECURSIVE divisionMapFrom(_, _, _)
divisionMapFrom(map, teams, k) ==
    IF k > Len(DIVISION_ORDER) THEN map
    ELSE divisionMapFrom(setRows(map, teams[DIVISION_ORDER[k]], DIVISION_ORDER[k]), teams, k + 1)

supabaseDivisionByTeam(teams) == divisionMapFrom([k \in {} |-> ""], teams, 1)

baselineHasStats(base) ==
    \E i \in 1..Len(base) :
        \/ base[i].gamesPlayed > 0
        \/ base[i].wins > 0
        \/ base[i].losses > 0
        \/ base[i].pointsFor > 0
        \/ base[i].pointsAgainst > 0

\* the earlier rule: any baseline row at all moves the start to week 2
startWeekAnyBaseline(base) == IF Len(base) > 0 THEN START_WEEK_FOR_AUTOCALC ELSE 1

startWeekForThisDevice(base) == IF baselineHasStats(base) THEN START_WEEK_FOR_AUTOCALC ELSE 1

NamesOf(rows) == [i \in 1..Len(rows) |-> rows[i].name]

TeamsOfMatches(ms) == [i \in 1..(2 * Len(ms)) |->
                          IF i % 2 = 1 THEN ms[(i + 1) \div 2].teamA ELSE ms[i \div 2].teamB]

\* a variant that leaves out the team names of the matches
allKnownTeamsNoMatches(ms, base, teams) ==
    LET baselineAll   == DEFAULT_TEAMS_BY_DIVISION.Advanced
                           \o DEFAULT_TEAMS_BY_DIVISION.Intermediate
                           \o DEFAULT_TEAMS_BY_DIVISION.Beginner
        supaAll       == NamesOf(teams.Advanced) \o NamesOf(teams.Intermediate)
                           \o NamesOf(teams.Beginner)
        baseTeamList  == [i \in 1..Len(base) |-> base[i].team]
    IN  uniqSorted(baselineAll \o supaAll \o baseTeamList)

allKnownTeams(ms, base, teams) ==
    LET baselineAll   == DEFAULT_TEAMS_BY_DIVISION.Advanced
                           \o DEFAULT_TEAMS_BY_DIVISION.Intermediate
                           \o DEFAULT_TEAMS_BY_DIVISION.Beginner
        supaAll       == NamesOf(teams.Advanced) \o NamesOf(teams.Intermediate)
                           \o NamesOf(teams.Beginner)
        fromMatchesAll == TeamsOfMatches(ms)
        baseTeamList  == [i \in 1..Len(base) |-> base[i].team]
    IN  uniqSorted(baselineAll \o supaAll \o fromMatchesAll \o baseTeamList)

hintDiv(t, teams) ==
    LET map     == supabaseDivisionByTeam(teams)
        supaDiv == IF t \in DOMAIN map THEN map[t] ELSE NULL
        baseDiv == getBaselineDivision(t)
    IN  IF supaDiv # NULL THEN supaDiv ELSE IF baseDiv # NULL THEN baseDiv ELSE "Beginner"

RECURSIVE seedKnown(_, _, _)
seedKnown(totals, names, teams) ==
    IF names = <<>> THEN totals
    ELSE LET t == normalizeName(Head(names))
         IN  IF t = <<>> THEN seedKnown(totals, Tail(names), teams)
             ELSE seedKnown(addTotals(totals,
                                [team |-> t, originalDivision |-> hintDiv(t, teams),
                                 gamesPlayed |-> 0, wins |-> 0, losses |-> 0,
                                 pointsFor |-> 0, pointsAgainst |-> 0]),
                            Tail(names), teams)

RECURSIVE seedBase(_, _)
seedBase(totals, base) ==
    IF base = <<>> THEN totals
    ELSE LET r == Head(base)
         IN  seedBase(addTotals(totals,
                          [team |-> r.team, originalDivision |-> r.division,
                           gamesPlayed |-> r.gamesPlayed, wins |-> r.wins, losses |-> r.losses,
                           pointsFor |-> r.pointsFor, pointsAgainst |-> r.pointsAgainst]),
                      Tail(base))

RECURSIVE tallyTieToB(_, _, _, _)
\* a variant of the first loop that gives a tied game to team B
tallyTieToB(aRaw, bRaw, i, acc) ==
    IF i > 3 THEN acc
    ELSE IF ~gameEnteredPair(aRaw[i], bRaw[i]) THEN tallyTieToB(aRaw, bRaw, i + 1, acc)
    ELSE LET ap == toN(aRaw[i])
             bp == toN(bRaw[i])
         IN  tallyTieToB(aRaw, bRaw, i + 1,
                   [aWins       |-> IF ap > bp THEN acc.aWins + 1 ELSE acc.aWins,
                    bWins       |-> IF ap > bp THEN acc.bWins ELSE acc.bWins + 1,
                    gamesPlayed |-> acc.gamesPlayed + 1])

RECURSIVE tally(_, _, _, _)
\* first loop over the game slots: wins and games played
tally(aRaw, bRaw, i, acc) ==
    IF i > 3 THEN acc
    ELSE IF ~gameEnteredPair(aRaw[i], bRaw[i]) THEN tally(aRaw, bRaw, i + 1, acc)
    ELSE LET ap == toN(aRaw[i])
             bp == toN(bRaw[i])
         IN  tally(aRaw, bRaw, i + 1,
                   [aWins       |-> IF ap > bp THEN acc.aWins + 1 ELSE acc.aWins,
                    bWins       |-> IF ap > bp THEN acc.bWins
                                    ELSE IF bp > ap THEN acc.bWins + 1 ELSE acc.bWins,
                    gamesPlayed |-> acc.gamesPlayed + 1])

RECURSIVE pointsSwapped(_, _, _, _)
\* a variant of the second loop that gives each side the other side's points
pointsSwapped(aRaw, bRaw, i, acc) ==
    IF i > 3 THEN acc
    ELSE IF ~gameEnteredPair(aRaw[i], bRaw[i]) THEN pointsSwapped(aRaw, bRaw, i + 1, acc)
    ELSE pointsSwapped(aRaw, bRaw, i + 1,
                [aPF |-> acc.aPF + toN(bRaw[i]), bPF |-> acc.bPF + toN(aRaw[i])])

RECURSIVE points(_, _, _, _)
\* second loop over the game slots: points
points(aRaw, bRaw, i, acc) ==
    IF i > 3 THEN acc
    ELSE IF ~gameEnteredPair(aRaw[i], bRaw[i]) THEN points(aRaw, bRaw, i + 1, acc)
    ELSE points(aRaw, bRaw, i + 1,
                [aPF |-> acc.aPF + toN(aRaw[i]), bPF |-> acc.bPF + toN(bRaw[i])])

\* a variant that records team B's own wins as its losses
matchAddsOwnLosses(m, s) ==
    LET aRaw == <<s.teamA.g1, s.teamA.g2, s.teamA.g3>>
        bRaw == <<s.teamB.g1, s.teamB.g2, s.teamB.g3>>
        t    == tally(aRaw, bRaw, 1, [aWins |-> 0, bWins |-> 0, gamesPlayed |-> 0])
        p    == points(aRaw, bRaw, 1, [aPF |-> 0, bPF |-> 0])
    IN  [a |-> [team |-> m.teamA, originalDivision |-> m.division,
                gamesPlayed |-> t.gamesPlayed, wins |-> t.aWins, losses |-> t.bWins,
                pointsFor |-> p.aPF, pointsAgainst |-> p.bPF],
         b |-> [team |-> m.teamB, originalDivision |-> m.division,
                gamesPlayed |-> t.gamesPlayed, wins |-> t.bWins, losses |-> t.bWins,
                pointsFor |-> p.bPF, pointsAgainst |-> p.aPF]]

\* the two addTotals arguments of one counted match
matchAdds(m, s) ==
    LET aRaw == <<s.teamA.g1, s.teamA.g2, s.teamA.g3>>
        bRaw == <<s.teamB.g1, s.teamB.g2, s.teamB.g3>>
        t    == tally(aRaw, bRaw, 1, [aWins |-> 0, bWins |-> 0, gamesPlayed |-> 0])
        p    == points(aRaw, bRaw, 1, [aPF |-> 0, bPF |-> 0])
    IN  [a |-> [team |-> m.teamA, originalDivision |-> m.division,
                gamesPlayed |-> t.gamesPlayed, wins |-> t.aWins, losses |-> t.bWins,
                pointsFor |-> p.aPF, pointsAgainst |-> p.bPF],
         b |-> [team |-> m.teamB, originalDivision |-> m.division,
                gamesPlayed |-> t.gamesPlayed, wins |-> t.bWins, losses |-> t.aWins,
                pointsFor |-> p.bPF, pointsAgainst |-> p.aPF]]

\* a variant of the filter that takes unverified score rows too
isCountedUnverified(m, sc, startWeek) ==
    /\ ~(m.week < startWeek)
    /\ m.id \in DOMAIN sc

\* the filter at the head of the loop over the matches
isCounted(m, sc, startWeek) ==
    /\ ~(m.week < startWeek)
    /\ m.id \in DOMAIN sc
    /\ sc[m.id].verified

RECURSIVE foldMatchesTeamAOnly(_, _, _, _)
\* a variant of the loop without the second addTotals call
foldMatchesTeamAOnly(totals, ms, sc, startWeek) ==
    IF ms = <<>> THEN totals
    ELSE LET m == Head(ms)
         IN  IF ~isCounted(m, sc, startWeek)
             THEN foldMatchesTeamAOnly(totals, Tail(ms), sc, startWeek)
             ELSE foldMatchesTeamAOnly(addTotals(totals, matchAdds(m, sc[m.id]).a),
                                       Tail(ms), sc, startWeek)

RECURSIVE foldMatches(_, _, _, _)
\* step 2: the loop over the matches
foldMatches(totals, ms, sc, startWeek) ==
    IF ms = <<>> THEN totals
    ELSE LET m == Head(ms)
         IN  IF ~isCounted(m, sc, startWeek) THEN foldMatches(totals, Tail(ms), sc, startWeek)
             ELSE LET adds == matchAdds(m, sc[m.id])
                  IN  foldMatches(addTotals(addTotals(totals, adds.a), adds.b),
                                  Tail(ms), sc, startWeek)

computeTotals(ms, sc, base, teams) ==
    LET seeded   == seedKnown(<<>>, allKnownTeams(ms, base, teams), teams)
        withBase == IF baselineHasStats(base) THEN seedBase(seeded, base) ELSE seeded
    IN  foldMatches(withBase, ms, sc, startWeekForThisDevice(base))

\* a variant that lists a moved team under its original division as well
finalRowsKeepingOriginal(totals, asOfWeek, moves) ==
    LET rowOf(t, d) == [division |-> d, team |-> t.team, gamesPlayed |-> t.gamesPlayed,
                        wins |-> t.wins, losses |-> t.losses, pointsFor |-> t.pointsFor,
                        pointsAgainst |-> t.pointsAgainst]
        moved == SelectSeq(totals, LAMBDA t :
                     /\ getDivisionForTeamAsOfWeek(t.team, asOfWeek, moves) # NULL
                     /\ getDivisionForTeamAsOfWeek(t.team, asOfWeek, moves) # t.originalDivision)
    IN  [i \in 1..Len(totals) |->
            LET movedDivision == getDivisionForTeamAsOfWeek(totals[i].team, asOfWeek, moves)
            IN  rowOf(totals[i], IF movedDivision # NULL THEN movedDivision
                                 ELSE totals[i].originalDivision)]
        \o [i \in 1..Len(moved) |-> rowOf(moved[i], moved[i].originalDivision)]

\* step 3: the totals as rows, each with its division after the moves
finalRows(totals, asOfWeek, moves) ==
    [i \in 1..Len(totals) |->
        LET t             == totals[i]
            movedDivision == getDivisionForTeamAsOfWeek(t.team, asOfWeek, moves)
        IN  [division      |-> IF movedDivision # NULL THEN movedDivision ELSE t.originalDivision,
             team          |-> t.team,
             gamesPlayed   |-> t.gamesPlayed,
             wins          |-> t.wins,
             losses        |-> t.losses,
             pointsFor     |-> t.pointsFor,
             pointsAgainst |-> t.pointsAgainst]]

\* a variant of the comparator without the rule for teams with no games
compareRowsNoZeroRule(x, y) ==
    IF y.wins # x.wins THEN y.wins - x.wins
    ELSE IF x.losses # y.losses THEN x.losses - y.losses
    ELSE IF y.pointsFor # x.pointsFor THEN y.pointsFor - x.pointsFor
    ELSE IF x.pointsAgainst # y.pointsAgainst THEN x.pointsAgainst - y.pointsAgainst
    ELSE localeCompare(x.team, y.team)

\* the comparator of the division tables
compareRows(x, y) ==
    LET xZero == x.gamesPlayed = 0
        yZero == y.gamesPlayed = 0
    IN  IF xZero # yZero THEN (IF xZero THEN 1 ELSE -1)
        ELSE IF y.wins # x.wins THEN y.wins - x.wins
        ELSE IF x.losses # y.losses THEN x.losses - y.losses
        ELSE IF y.pointsFor # x.pointsFor THEN y.pointsFor - x.pointsFor
        ELSE IF x.pointsAgainst # y.pointsAgainst THEN x.pointsAgainst - y.pointsAgainst
        ELSE localeCompare(x.team, y.team)

RECURSIVE insertRow(_, _)
insertRow(sorted, x) ==
    IF sorted = <<>> THEN <<x>>
    ELSE IF compareRows(sorted[Len(sorted)], x) <= 0 THEN Append(sorted, x)
    ELSE Append(insertRow(SubSeq(sorted, 1, Len(sorted) - 1), x), sorted[Len(sorted)])

RECURSIVE sortRows(_)
\* Array.prototype.sort with compareRows (stable)
sortRows(rows) ==
    IF rows = <<>> THEN <<>>
    ELSE insertRow(sortRows(SubSeq(rows, 1, Len(rows) - 1)), rows[Len(rows)])

computedOf(ms, sc, base, moves, teams) ==
    LET totals   == computeTotals(ms, sc, base, teams)
        asOfWeek == getMaxVerifiedWeek(ms, sc)
        rows     == finalRows(totals, asOfWeek, moves)
    IN  [k \in 1..Len(DIVISION_ORDER) |->
            [division |-> DIVISION_ORDER[k],
             rows     |-> sortRows(SelectSeq(rows, LAMBDA r : r.division = DIVISION_ORDER[k]))]]

Totals == computeTotals(matches, scores, baseRows, dbTeams)

Computed == computedOf(matches, scores, baseRows, divisionMoves, dbTeams)

----------------------------------------------------------------------------
(* Scoring screen: the same predicates as the scoring screen defines them *)

toN_scoring(s) ==
    LET n == parseInt(IF s = <<>> THEN <<"0">> ELSE s)
    IN  IF n.finite THEN n.n ELSE 0

isEnteredScore_scoring(v) == Trim(v) # <<>>

gameEnteredPair_scoring(a, b) == isEnteredScore_scoring(a) /\ isEnteredScore_scoring(b)

RECURSIVE gameWinsFrom(_, _, _, _)
gameWinsFrom(aRaw, bRaw, i, acc) ==
    IF i > 3 THEN acc
    ELSE IF ~gameEnteredPair_scoring(aRaw[i], bRaw[i]) THEN gameWinsFrom(aRaw, bRaw, i + 1, acc)
    ELSE LET a == toN_scoring(aRaw[i])
             b == toN_scoring(bRaw[i])
         IN  gameWinsFrom(aRaw, bRaw, i + 1,
                   [aWins        |-> IF a > b THEN acc.aWins + 1 ELSE acc.aWins,
                    bWins        |-> IF a > b THEN acc.bWins
                                     ELSE IF b > a THEN acc.bWins + 1 ELSE acc.bWins,
                    gamesEntered |-> acc.gamesEntered + 1])

gameWins(fieldsA, fieldsB) ==
    gameWinsFrom(<<fieldsA.g1, fieldsA.g2, fieldsA.g3>>, <<fieldsB.g1, fieldsB.g2, fieldsB.g3>>, 1,
                 [aWins |-> 0, bWins |-> 0, gamesEntered |-> 0])

----------------------------------------------------------------------------
(* What the backend may return.  Team names: a, b and c are teams outside
   the hardcoded roster; some rows carry a name with surrounding blanks. *)

NameA == <<"a">>
NameB == <<"b">>
NameC == <<"c">>
NameASpaced == <<" ", "a">>
NameCSpaced == <<" ", "c", " ">>
NameATrailing == <<"a", " ">>
NameUpperA == <<"A">>
Blank == <<" ">>

S0 == <<"0">>
S7 == <<"7">>
S9 == <<"9">>
S11 == <<"1", "1">>
Empty == <<>>

Weeks == 1..MaxWeek

RawMatch1(w, d) ==
    [id |-> "m1", week |-> w, division |-> d, time |-> "6:00 PM", court |-> 1,
     team_a |-> NameA, team_b |-> NameB]

RawMatch2(d) ==
    [id |-> "m2", week |-> 2, division |-> d, time |-> "6:15 PM", court |-> 2,
     team_a |-> NameASpaced, team_b |-> TeamP]

\* order=week.asc, division.asc
DivisionRank(d) ==
    CASE d = "Advanced" -> 1 [] d = "Beginner" -> 2 [] d = "Intermediate" -> 3 [] OTHER -> 4

RawBefore(x, y) ==
    \/ x.week < y.week
    \/ x.week = y.week /\ DivisionRank(x.division) <= DivisionRank(y.division)

RawPair(x, y) == IF RawBefore(x, y) THEN <<x, y>> ELSE <<y, x>>

MatchRowLists ==
    {<<>>, <<RawMatch1(2, "Intermediate")>>}
      \cup {<<RawMatch2(d)>> : d \in {"Beginner", "Open"}}
      \cup {RawPair(RawMatch1(w, d), RawMatch2("Beginner")) : w \in Weeks, d \in Division}

Fields(x, y, z) == [g1 |-> x, g2 |-> y, g3 |-> z]

RawScore(id, a, b, v) == [match_id |-> id, team_a |-> a, team_b |-> b, verified |-> v]

\* the score rows tried for match m1: the pair of ScoreFields as stored
ScorePairs ==
    { <<Fields(Some(S11), Some(S9), Null), Fields(Some(S7), Some(S11), Some(Empty))>>,
      <<Fields(Some(S11), Some(S7), Null), Fields(Some(S7), Some(S11), Null)>>,
      <<Fields(Some(S11), Some(Empty), Some(S0)), Fields(Some(Empty), Some(S7), Some(S11))>>,
      <<Fields(Some(S7), Some(S0), Some(S9)), Fields(Some(S7), Some(S0), Some(S9))>>,
      <<Fields(Null, Null, Null), Fields(Some(Empty), Some(Empty), Some(Empty))>>,
      <<Fields(Some(Blank), Some(S7), Some(S0)), Fields(Some(S7), Null, Some(S7))>> }

UnverifiedPair ==
    <<Fields(Some(S11), Some(S11), Null), Fields(Some(S7), Some(S9), Null)>>

Match1ScoreRows ==
    {<<>>} \cup {<<RawScore("m1", p[1], p[2], TRUE)>> : p \in ScorePairs}
           \cup {<<RawScore("m1", UnverifiedPair[1], UnverifiedPair[2], FALSE)>>}

Match2ScoreRow ==
    RawScore("m2", Fields(Some(S7), Some(S11), Some(S9)),
                   Fields(Some(S11), Some(S9), Some(S11)), TRUE)

\* the rows of m1 that come together with a row of m2
Match1RowsBeforeMatch2 ==
    {<<>>,
     <<RawScore("m1", Fields(Some(S11), Some(S9), Null),
                      Fields(Some(S7), Some(S11), Some(Empty)), TRUE)>>,
     <<RawScore("m1", Fields(Some(S7), Some(S0), Some(S9)),
                      Fields(Some(S7), Some(S0), Some(S9)), TRUE)>>,
     <<RawScore("m1", UnverifiedPair[1], UnverifiedPair[2], FALSE)>>}

ScoreRowLists == Match1ScoreRows \cup {Append(x, Match2ScoreRow) : x \in Match1RowsBeforeMatch2}

RawBase(d, t, gp, w, l, pf, pa) ==
    [division |-> d, team |-> t, games_played |-> gp, wins |-> w, losses |-> l,
     points_for |-> pf, points_against |-> pa]

BaseTeamOnly == RawBase("Advanced", NameCSpaced, Null, Null, Null, Null, Null)

BaseDropped == RawBase("Open", NameB, Some(5), Some(5), Some(0), Some(55), Some(0))

\* a row with wins but no games played
BaseNoGames(k) == RawBase("Advanced", NameCSpaced, Some(0), Some(k), Null, Null, Null)

BaseWithStats(k) ==
    RawBase("Advanced", NameA, Some(k + 1), Some(k), Some(1), Some(11 * k + 7), Some(7 * k + 11))

\* order=division.asc, team.asc
BaseRowLists ==
    {<<>>, <<BaseTeamOnly, BaseDropped>>, <<BaseNoGames(1)>>}
      \cup {<<BaseNoGames(k), BaseWithStats(k)>> : k \in 1..MaxBaseStat}

RawMove(id, t, from, to, w) ==
    [id |-> id, team |-> t, from_division |-> from, to_division |-> to, effective_week |-> w]

MoveA(w) == RawMove("v1", NameA, "Beginner", "Advanced", Some(w))

MoveASpaced == RawMove("v2", NameASpaced, "Advanced", "Intermediate", Some(2))

MoveUpper == RawMove("v3", NameUpperA, "Beginner", "Intermediate", Null)

MoveP == RawMove("v4", TeamP \o <<" ">>, "Advanced", "Beginner", Some(1))

MoveDropped == RawMove("v5", Empty, "Advanced", "Beginner", Some(1))

\* order=effective_week.asc, created_at.asc
MoveRowLists ==
    {<<>>, <<MoveUpper, MoveDropped, MoveP>>}
      \cup {IF w <= 2 THEN <<MoveA(w), MoveASpaced>> ELSE <<MoveASpaced, MoveA(w)>> : w \in Weeks}

RawTeam(id, d, n) == [id |-> id, division |-> d, name |-> n]

TeamRowLists ==
    {<<>>,
     <<RawTeam("t1", "Intermediate", NameA), RawTeam("t2", "Advanced", NameATrailing),
       RawTeam("t3", "Beginner", TeamP), RawTeam("t4", "Open", NameC),
       RawTeam("t5", "Beginner", Blank)>>}

----------------------------------------------------------------------------
(* Schedule builder: src/app/(tabs)/admin-schedule.tsx, lines 1-1300.
   The roster, the time slots and the courts are cut down to the few the
   model tries; a time slot is ranked by its place in TIMES, which is the
   order localeCompare gives to the slots of one evening. *)

TEAMS_BY_DIVISION ==
    [d \in Division |->
        CASE d = "Advanced" -> <<NameA, NameB, NameC>>
          [] d = "Intermediate" -> <<TeamP, TeamQ>>
          [] OTHER -> <<TeamR>>]

COURTS == <<1, 2>>

TIMES == <<"6:00 PM", "6:15 PM">>

TimeRank(t) == IF t = TIMES[1] THEN 1 ELSE IF t = TIMES[2] THEN 2 ELSE 3

safeInt(value, fallback) ==
    LET n == parseInt(value)
    IN  IF n.finite THEN n.n ELSE fallback

DigitChar(d) == CHOOSE c \in Digits : DigitVal(c) = d

\* String(n) of a week number
RECURSIVE NumberToString(_)
NumberToString(n) ==
    IF n < 10 THEN <<DigitChar(n)>>
    ELSE NumberToString(n \div 10) \o <<DigitChar(n % 10)>>

compareMatches(a, b) ==
    IF a.week # b.week THEN a.week - b.week
    ELSE IF a.division # b.division THEN DivisionRank(a.division) - DivisionRank(b.division)
    ELSE IF a.time # b.time THEN TimeRank(a.time) - TimeRank(b.time)
    ELSE a.court - b.court

RECURSIVE insertMatch(_, _)
insertMatch(sorted, x) ==
    IF sorted = <<>> THEN <<x>>
    ELSE IF compareMatches(x, sorted[Len(sorted)]) >= 0 THEN Append(sorted, x)
    ELSE Append(insertMatch(SubSeq(sorted, 1, Len(sorted) - 1), x), sorted[Len(sorted)])

RECURSIVE sortMatches(_)
sortMatches(list) ==
    IF list = <<>> THEN <<>>
    ELSE insertMatch(sortMatches(SubSeq(list, 1, Len(list) - 1)), list[Len(list)])

RECURSIVE newestWeekFrom(_, _)
newestWeekFrom(list, max) ==
    IF list = <<>> THEN max
    ELSE newestWeekFrom(Tail(list),
                        IF max = Null \/ list[1].week > max[1] THEN Some(list[1].week) ELSE max)

getNewestWeekFromMatches(list) == newestWeekFrom(list, Null)

\* the key of a pairing keeps the names in the order they were given
matchupKeyOrdered(a, b) == <<Trim(a), Trim(b)>>

\* the two trimmed names in sorted order stand for `${pair[0]}__VS__${pair[1]}`
matchupKey(a, b) == sortNames(<<Trim(a), Trim(b)>>)

rowToSavedMatch(r) ==
    IF ~isDivision(r.division) THEN Null
    ELSE Some([id |-> r.id, week |-> r.week, division |-> r.division, time |-> r.time,
               court |-> r.court, teamA |-> r.team_a, teamB |-> r.team_b])

savedMatchToRow(m) ==
    [id |-> m.id, week |-> m.week, division |-> m.division, time |-> m.time,
     court |-> m.court, team_a |-> m.teamA, team_b |-> m.teamB]

RECURSIVE rowsToSavedMatches(_)
rowsToSavedMatches(rows) ==
    IF rows = <<>> THEN <<>>
    ELSE LET m == rowToSavedMatch(rows[1])
         IN  (IF m = Null THEN <<>> ELSE <<m[1]>>) \o rowsToSavedMatches(Tail(rows))

\* the rows come in created_at_ms order
fetchMatchesFromSupabase(table) == sortMatches(rowsToSavedMatches(table))

\* on_conflict=id with merge-duplicates: the row of that id is replaced, and
\* its new created_at_ms puts it last
upsertMatchToSupabase(table, match) ==
    Append(SelectSeq(table, LAMBDA r : r.id # match.id), savedMatchToRow(match))

deleteMatchFromSupabase(table, id) == SelectSeq(table, LAMBDA r : r.id # id)

\* DELETE matches?week=eq.<week>
deleteWeekFromSupabase(table, w) == SelectSeq(table, LAMBDA r : r.week # w)

bulkInsertMatchesToSupabase(table, list) ==
    table \o [i \in 1..Len(list) |-> savedMatchToRow(list[i])]

\* maybeMigrateLegacyMatches: the table after the one-time import
maybeMigrateLegacyMatches(table, legacy, flag) ==
    IF flag THEN table
    ELSE IF Len(rowsToSavedMatches(table)) > 0 THEN table
    ELSE IF legacy = <<>> THEN table
    ELSE bulkInsertMatchesToSupabase(table, sortMatches(legacy))

\* teams: the roster of the selected division (no Supabase or local teams)
teamsOfDivision(d) == uniqSorted(TEAMS_BY_DIVISION[d])

Form(w, d, t, c, a, b) ==
    [week |-> w, division |-> d, time |-> t, court |-> c, teamA |-> a, teamB |-> b]

\* the form as the render sees it: week, division, time, court, teamA, teamB
CurrentForm == Form(week, division, time, court, teamA, teamB)

weekNum(f) == safeInt(f.week, 0)

\* AsyncStorage attendance of a week
StoredAttendance(w) ==
    IF w \in DOMAIN storedAttendance THEN storedAttendance[w] ELSE [t \in {} |-> TRUE]

loadAttendanceForTypedWeek(w) ==
    IF w <= 0 THEN [t \in {} |-> TRUE] ELSE StoredAttendance(w)

isTeamOutForTypedWeek(att, teamName) ==
    teamName \in DOMAIN att /\ att[teamName] = FALSE

isEdited(m) == editingId # Null /\ m.id = editingId[1]

\* the variant that also counts the match being edited
scheduledTeamsThisSlotAll(f) ==
    IF weekNum(f) <= 0 THEN {}
    ELSE UNION {{savedMatches[i].teamA, savedMatches[i].teamB} :
                  i \in {j \in 1..Len(savedMatches) :
                           /\ savedMatches[j].week = weekNum(f)
                           /\ savedMatches[j].division = f.division
                           /\ savedMatches[j].time = f.time}}

scheduledTeamsThisSlot(f) ==
    IF weekNum(f) <= 0 THEN {}
    ELSE UNION {{savedMatches[i].teamA, savedMatches[i].teamB} :
                  i \in {j \in 1..Len(savedMatches) :
                           /\ ~isEdited(savedMatches[j])
                           /\ savedMatches[j].week = weekNum(f)
                           /\ savedMatches[j].division = f.division
                           /\ savedMatches[j].time = f.time}}

isTeamBookedThisSlot(f, teamName) == teamName \in scheduledTeamsThisSlot(f)

readyToSave(f) ==
    weekNum(f) > 0 /\ f.time # "" /\ f.court # 0 /\ f.teamA # <<>> /\ f.teamB # <<>> /\ f.teamA # f.teamB

\* the value 'ALL' of the list week filter
ALL == <<"A", "L", "L">>

Msg(kind, w, t, c, d) == [kind |-> kind, week |-> w, time |-> t, court |-> c, division |-> d]

NoMsg == Msg("", 0, "", 0, "")

IncompleteMsg == Msg("Please fill everything out and pick two different teams.", 0, "", 0, "")

AttendanceMsg(f) == Msg("marked OUT", weekNum(f), "", 0, "")

AlreadyScheduledMsg(f) == Msg("already scheduled", weekNum(f), f.time, 0, f.division)

CourtConflictMsg(f, d) == Msg("Court is already booked", weekNum(f), f.time, f.court, d)

TeamConflictMsg(f) == Msg("One of these teams is already scheduled", weekNum(f), f.time, 0, f.division)

\* the messages of the errors thrown by the backend requests
UpsertFailedMsg == Msg("Supabase matches UPSERT failed", 0, "", 0, "")

SelectFailedMsg == Msg("Supabase matches SELECT failed", 0, "", 0, "")

DeleteFailedMsg == Msg("Supabase matches DELETE failed", 0, "", 0, "")

DeleteWeekFailedMsg == Msg("Supabase matches DELETE week failed", 0, "", 0, "")

PickWeekMsg == Msg("Pick a week first (Week filter or Week input).", 0, "", 0, "")

TypeDeleteMsg == Msg("To confirm, you must type exactly: Delete", 0, "", 0, "")

\* the variant that always takes the typed week
getTargetWeekTypedOnly(filter, typedWeek) ==
    IF safeInt(typedWeek, 0) > 0 THEN safeInt(typedWeek, 0) ELSE 0

\* the week Clear Week deletes: the list week filter if it is a week, else the typed week
getTargetWeekForClearWeek(filter, typedWeek) ==
    LET fromFilter == IF filter # ALL THEN safeInt(filter, 0) ELSE 0
        fromInput  == safeInt(typedWeek, 0)
    IN  IF fromFilter > 0 THEN fromFilter
        ELSE IF fromInput > 0 THEN fromInput ELSE 0

\* the weeks offered by the picker of the list week filter
weekOptions(list) == {list[i].week : i \in {j \in 1..Len(list) : list[j].week > 0}}

\* the variant that looks for a booked court in the selected division only
isConflictWithinDivision(f, m) ==
    /\ ~isEdited(m)
    /\ m.week = weekNum(f)
    /\ m.time = f.time
    /\ m.division = f.division
    /\ \/ m.court = f.court
       \/ f.teamA \in {m.teamA, m.teamB} \/ f.teamB \in {m.teamA, m.teamB}

isConflict(f, m) ==
    /\ ~isEdited(m)
    /\ m.week = weekNum(f)
    /\ m.time = f.time
    /\ \/ m.court = f.court
       \/ m.division = f.division /\ (f.teamA \in {m.teamA, m.teamB} \/ f.teamB \in {m.teamA, m.teamB})

\* null is Null, a message is Some(message)
findConflictMessage(f) ==
    IF f.teamA = <<>> \/ f.teamB = <<>> THEN Null
    ELSE LET found == SelectSeq(savedMatches, LAMBDA m : isConflict(f, m))
         IN  IF found = <<>> THEN Null
             ELSE LET conflict == found[1]
                  IN  IF conflict.court = f.court /\ conflict.time = f.time /\ conflict.week = weekNum(f)
                      THEN Some(CourtConflictMsg(f, conflict.division))
                      ELSE Some(TeamConflictMsg(f))

samePairing(f, m) == matchupKey(m.teamA, m.teamB) = matchupKey(f.teamA, f.teamB)

alreadyPlayingEachOtherThisWeek(f) ==
    IF f.teamA = <<>> \/ f.teamB = <<>> \/ weekNum(f) <= 0 THEN FALSE
    ELSE \E i \in 1..Len(savedMatches) :
            /\ ~isEdited(savedMatches[i])
            /\ savedMatches[i].week = weekNum(f)
            /\ samePairing(f, savedMatches[i])

timesPlayedThisSeason(f) ==
    IF f.teamA = <<>> \/ f.teamB = <<>> THEN 0
    ELSE Cardinality({i \in 1..Len(savedMatches) :
                        ~isEdited(savedMatches[i]) /\ samePairing(f, savedMatches[i])})

\* the set stands for the sorted list of unique weeks
weeksPlayedThisSeason(f) ==
    IF f.teamA = <<>> \/ f.teamB = <<>> THEN {}
    ELSE {savedMatches[i].week :
            i \in {j \in 1..Len(savedMatches) :
                     /\ ~isEdited(savedMatches[j])
                     /\ samePairing(f, savedMatches[j])
                     /\ savedMatches[j].week > 0}}

\* the message of the confirmation: the duplicate warning, the count and the weeks
confirmMessage(f) ==
    [isDupThisWeek |-> alreadyPlayingEachOtherThisWeek(f),
     seasonCount   |-> timesPlayedThisSeason(f),
     weeks         |-> IF timesPlayedThisSeason(f) > 0 THEN weeksPlayedThisSeason(f) ELSE {}]

\* how many writes of doSave and deleteMatch reach the backend
MaxWrites == 1

SavedMatch(id, w, d, t, c, a, b) ==
    [id |-> id, week |-> w, division |-> d, time |-> t, court |-> c, teamA |-> a, teamB |-> b]

\* the match that an earlier version of the app stored on the device
LegacyMatch == SavedMatch(0, 1, "Advanced", TIMES[1], 1, NameASpaced, NameB)

\* what the admin enters before pressing Save
Forms ==
    { Form(<<"1">>, "Advanced",     TIMES[1], 1, NameA, NameC),
      Form(<<"1">>, "Intermediate", TIMES[1], 1, TeamP, TeamQ),
      Form(<<"1">>, "Advanced",     TIMES[1], 2, NameB, NameC),
      Form(<<"1">>, "Advanced",     TIMES[2], 1, NameB, NameA),
      Form(<<"2">>, "Advanced",     TIMES[1], 1, NameA, NameC),
      Form(<<"2">>, "Advanced",     TIMES[1], 2, NameA, NameB),
      Form(<<"2">>, "Advanced",     TIMES[1], 1, NameC, NameC),
      Form(<<"1">>, "Beginner",     TIMES[1], 2, TeamR, <<>>) }

\* STORAGE_KEY_CURRENT_WEEK on the device: absent or "2"
StoredCurrentWeeks == {Null, Some(<<"2">>)}

\* the backend table and the legacy list when the screen opens
BackendAtOpen ==
    { [table |-> <<>>, legacy |-> <<>>],
      [table |-> <<>>, legacy |-> <<LegacyMatch>>],
      [table |-> <<savedMatchToRow(LegacyMatch)>>, legacy |-> <<LegacyMatch>>] }

\* how many writes reach the backend in the specification with Clear Week
MaxBookings == 2

\* the forms saved in the specification with Clear Week: two matches on the
\* same court at the same time in week 1 and a match of week 2
BookingForms ==
    { Form(<<"1">>, "Advanced",     TIMES[1], 1, NameA, NameB),
      Form(<<"1">>, "Intermediate", TIMES[1], 1, TeamP, TeamQ),
      Form(<<"2">>, "Advanced",     TIMES[1], 2, NameA, NameB) }

\* a matches table with a match of week 1 and a match of week 2
TwoWeeksTable ==
    << savedMatchToRow(SavedMatch(0, 1, "Intermediate", TIMES[2], 2, TeamP, TeamQ)),
       savedMatchToRow(SavedMatch(-1, 2, "Intermediate", TIMES[2], 2, TeamP, TeamQ)) >>

\* what the admin types into the Clear Week confirmation
ConfirmTexts ==
    { <<"D", "e", "l", "e", "t", "e">>,
      <<" ", "D", "e", "l", "e", "t", "e", " ">>,
      <<"d", "e", "l", "e", "t", "e">>,
      <<>> }

\* the state of the component after construction
ScheduleFormInit ==
    /\ mounted = FALSE
    /\ writes = 0
    /\ savedMatches = <<>>
    /\ week = <<"2">>
    /\ division = "Beginner"
    /\ time = TIMES[1]
    /\ court = 1
    /\ teamA = (IF Len(teamsOfDivision("Beginner")) >= 1 THEN teamsOfDivision("Beginner")[1] ELSE <<>>)
    /\ teamB = (IF Len(teamsOfDivision("Beginner")) >= 2 THEN teamsOfDivision("Beginner")[2] ELSE <<>>)
    /\ editingId = Null
    /\ attendance = [t \in {} |-> TRUE]
    /\ statusMsg = ""
    /\ errorMsg = NoMsg
    /\ confirmDialog = Null
    /\ listWeekFilter = ALL
    /\ showClearWeekConfirm = FALSE
    /\ clearWeekConfirmText = <<>>

\* the schedule builder is not open
ScheduleClosed ==
    /\ matchesTable = <<>>
    /\ legacyMatches = <<>>
    /\ migrated = FALSE
    /\ ScheduleFormInit

ScheduleInit ==
    /\ \E b \in BackendAtOpen :
          /\ matchesTable = b.table
          /\ legacyMatches = b.legacy
    /\ migrated = FALSE
    /\ ScheduleFormInit

----------------------------------------------------------------------------
(* Scoring screen: src/unnamed/part_005 *)

\* input.replace(/[^\d]/g, '')
RECURSIVE digitsOnly(_)
digitsOnly(input) ==
    IF input = <<>> THEN <<>>
    ELSE (IF input[1] \in Digits THEN <<input[1]>> ELSE <<>>) \o digitsOnly(Tail(input))

\* the variant that keeps the digits as they were typed
sanitizeAndClampScoreKeepDigits(input) ==
    LET digits == digitsOnly(input)
        two    == IF Len(digits) <= 2 THEN digits ELSE SubSeq(digits, 1, 2)
        n      == parseInt(two)
    IN  IF digits = <<>> THEN <<>>
        ELSE IF ~n.finite THEN <<>>
        ELSE IF n.n > 11 THEN <<"1", "1">>
        ELSE IF n.n < 0 THEN <<"0">>
        ELSE two

sanitizeAndClampScore(input) ==
    LET digits == digitsOnly(input)
        two    == IF Len(digits) <= 2 THEN digits ELSE SubSeq(digits, 1, 2)
        n      == parseInt(two)
    IN  IF digits = <<>> THEN <<>>
        ELSE IF ~n.finite THEN <<>>
        ELSE IF n.n > 11 THEN <<"1", "1">>
        ELSE IF n.n < 0 THEN <<"0">>
        ELSE NumberToString(n.n)

getTeamKey(matchId, team) == <<matchId, team>>

ScoreFieldNames == {"g1", "g2", "g3"}

EmptyFields == [g \in ScoreFieldNames |-> <<>>]

\* persistedFields?.g1 ?? '' for a missing row
getFields(drafts, matchId, teamName, persistedFields) ==
    LET key == getTeamKey(matchId, teamName)
    IN  IF key \in DOMAIN drafts THEN drafts[key] ELSE persistedFields

\* the variant that lets every client edit every match
canEditMatchAnyone(m) == TRUE

canEditMatch(m) ==
    IF isAdmin THEN TRUE
    ELSE IF myTeam = <<>> THEN FALSE
    ELSE normalizeName(m.teamA) = normalizeName(myTeam)
           \/ normalizeName(m.teamB) = normalizeName(myTeam)

\* the submitter: 'ADMIN', `${myPlayerName} (${myTeam})` or myTeam
verifiedByOf(admin, player, team) ==
    IF admin THEN [admin |-> TRUE, player |-> "", team |-> <<>>]
    ELSE [admin |-> FALSE, player |-> (IF team # <<>> THEN player ELSE ""), team |-> team]

fieldsOfSide(p, matchId, side) ==
    IF matchId \in DOMAIN p THEN p[matchId][side] ELSE EmptyFields

\* the row doSave sends
scoreRowOf(m) ==
    [matchId    |-> m.id,
     teamA      |-> getFields(draftScores, m.id, m.teamA, fieldsOfSide(persisted, m.id, "teamA")),
     teamB      |-> getFields(draftScores, m.id, m.teamB, fieldsOfSide(persisted, m.id, "teamB")),
     verified   |-> TRUE,
     verifiedBy |-> verifiedByOf(isAdmin, myPlayerName, myTeam)]

\* Prefer: resolution=merge-duplicates on the key match_id
upsertMatchScoreToSupabase(table, row) ==
    [id \in DOMAIN table \cup {row.matchId} |-> IF id = row.matchId THEN row ELSE table[id]]

fetchMatchScoresFromSupabase(table) == table

\* the longest text typed into a score box
MaxTextLen == 3

ScoreChars == {"0", "1", "9", "-"}

ScoreTexts == UNION {[1..k -> ScoreChars] : k \in 0..MaxTextLen}

\* the matches the screen shows
ScoringMatches ==
    {SavedMatch("m1", 1, "Advanced", TIMES[1], 1, NameASpaced, NameB),
     SavedMatch("m2", 1, "Advanced", TIMES[1], 2, NameC, TeamQ)}

\* the score box typed into: game 1 of team A of match m1
ScoreBoxes ==
    {[m |-> m, team |-> m.teamA, side |-> "teamA", field |-> "g1"] :
        m \in {x \in ScoringMatches : x.id = "m1"}}

\* ADMIN_UNLOCK_KEY, STORAGE_KEY_SELECTED_TEAM and STORAGE_KEY_SELECTED_PLAYER_NAME
Identities ==
    {[admin |-> TRUE,  team |-> <<>>,  player |-> ""],
     [admin |-> FALSE, team |-> NameA, player |-> "Pat"],
     [admin |-> FALSE, team |-> NameC, player |-> ""],
     [admin |-> FALSE, team |-> <<>>,  player |-> "Pat"]}

NoRows == [id \in {} |-> 0]

\* the state of ScoringScreen after construction, nothing stored yet
ScoringClosed ==
    /\ matchScoresTable = NoRows
    /\ isAdmin = FALSE
    /\ myTeam = <<>>
    /\ myPlayerName = ""
    /\ draftScores = NoRows
    /\ persisted = NoRows
    /\ verifyDialog = Null
    /\ lastAlert = ""

----------------------------------------------------------------------------
(* Attendance screen: src/unnamed/part_008 *)

\* allTeamsFlat: the rosters of the three divisions (no Supabase teams)
allTeamsFlat ==
    UNION {{TEAMS_BY_DIVISION[d][i] : i \in 1..Len(TEAMS_BY_DIVISION[d])} : d \in Division}

AttendanceRow(w, team, present) == [week |-> w, team |-> team, present |-> present]

\* GET attendance?week=eq.<week>
fetchAttendanceForWeek(table, w) == {r \in table : r.week = w}

\* POST attendance?on_conflict=week,team with merge-duplicates
upsertAttendanceRow(table, w, team, present) ==
    {r \in table : ~(r.week = w /\ r.team = team)} \cup {AttendanceRow(w, team, present)}

\* the map loadAttendance builds from the rows of a week: every team of the
\* rosters without a row is present
attendanceMapOf(rows) ==
    LET named == {r.team : r \in {x \in rows : Trim(x.team) # <<>>}}
    IN  [t \in named \cup allTeamsFlat |->
            IF t \in named THEN (CHOOSE r \in rows : r.team = t).present # FALSE ELSE TRUE]

\* the map shown when the rows cannot be fetched
attendanceFallback == [t \in allTeamsFlat |-> TRUE]

\* the weeks typed into the attendance screen
AttendanceWeeks == {<<"1">>, <<"2">>, <<>>}

\* the teams toggled in the attendance screen
AttendanceTeams == {NameA, NameC}

\* the forms saved while attendance is recorded
AttendanceForms ==
    { Form(<<"1">>, "Advanced", TIMES[1], 1, NameA, NameB),
      Form(<<"2">>, "Advanced", TIMES[1], 1, NameA, NameC),
      Form(<<"2">>, "Advanced", TIMES[1], 1, NameA, NameB) }

\* the state of AdminAttendanceScreen after construction, no row stored
AttendanceClosed ==
    /\ attendanceTable = {}
    /\ attendanceWeek = <<"1">>
    /\ attendanceMap = [t \in {} |-> TRUE]

\* how many refreshMatches calls are started
MaxReloads == 2

\* the contents of the matches table while the standings screen reloads
ReloadRowLists ==
    {<<>>, <<RawMatch1(2, "Intermediate")>>, <<RawMatch2("Beginner")>>}

\* the answers of the backend: the rows, or a failure
Answer(ok, rows) == [ok |-> ok, rows |-> rows]

\* no reload was started
ReloadIdle ==
    /\ matchRows = <<>>
    /\ requests = {}
    /\ issued = 0
    /\ shown = 0
    /\ newestDone = 0
    /\ newestMatches = <<>>

----------------------------------------------------------------------------
(* Manage Teams screen: src/unnamed/part_006 *)

\* the attendance a device holds from the time attendance was kept locally:
\* team c is marked OUT for week 2
DeviceAttendance == [w \in {2} |-> [t \in {NameA, NameC} |-> t = NameA]]

involves(m, name) == m.teamA = name \/ m.teamB = name

matchesToRemove(ms, name) == SelectSeq(ms, LAMBDA m : involves(m, name))

remainingMatches(ms, name) == SelectSeq(ms, LAMBDA m : ~involves(m, name))

removedScoreIds(ms, name) ==
    {matchesToRemove(ms, name)[i].id : i \in 1..Len(matchesToRemove(ms, name))}

nextScores(sc, ms, name) == [id \in DOMAIN sc \ removedScoreIds(ms, name) |-> sc[id]]

remainingMoves(mv, name) == SelectSeq(mv, LAMBDA m : m.team # name)

\* uniqSorted(matchesToRemove.map((m) => String(m.week))).map(parseInt)
weeksToClean(ms, name) ==
    LET texts == uniqSorted([i \in 1..Len(matchesToRemove(ms, name)) |->
                                NumberToString(matchesToRemove(ms, name)[i].week)])
    IN  [i \in 1..Len(texts) |-> parseInt(texts[i])]

Write(key, w, value) == [key |-> key, week |-> w, value |-> value]

\* the safeSetJSON calls of the attendance loop, in order
RECURSIVE attendanceWrites(_, _, _)
attendanceWrites(att, weeks, name) ==
    IF weeks = <<>> THEN <<>>
    ELSE LET w    == weeks[1]
             rest == attendanceWrites(att, Tail(weeks), name)
         IN  IF ~w.finite \/ w.n <= 0 THEN rest
             ELSE IF w.n \in DOMAIN att /\ name \in DOMAIN att[w.n]
                  THEN <<Write("attendance", w.n,
                               [t \in DOMAIN att[w.n] \ {name} |-> att[w.n][t]])>> \o rest
                  ELSE rest

\* the safeSetJSON calls of confirmDelete, in order
writesOf(st, name) ==
    << Write("matches", 0, remainingMatches(st.matches, name)),
       Write("scores", 0, nextScores(st.scores, st.matches, name)),
       Write("moves", 0, remainingMoves(st.moves, name)) >>
    \o attendanceWrites(st.attendance, weeksToClean(st.matches, name), name)

\* AsyncStorage.setItem
setItem(st, w) ==
    CASE w.key = "matches" -> [st EXCEPT !.matches = w.value]
      [] w.key = "scores"  -> [st EXCEPT !.scores = w.value]
      [] w.key = "moves"   -> [st EXCEPT !.moves = w.value]
      [] OTHER             -> [st EXCEPT !.attendance =
                                  [x \in DOMAIN st.attendance \cup {w.week} |->
                                      IF x = w.week THEN w.value ELSE st.attendance[x]]]

RECURSIVE writePrefix(_, _, _)
writePrefix(st, ws, done) ==
    IF done = 0 THEN st ELSE setItem(writePrefix(st, ws, done - 1), ws[done])

\* the variant that goes on with the writes after the one that failed
applyWritesPastFailure(st, ws, done) ==
    IF done >= Len(ws) THEN writePrefix(st, ws, done)
    ELSE writePrefix(st, [i \in 1..(Len(ws) - 1) |-> IF i <= done THEN ws[i] ELSE ws[i + 1]],
                     Len(ws) - 1)

\* the storage after the first done writes of confirmDelete
applyWrites(st, ws, done) == writePrefix(st, ws, done)

DeviceStorage ==
    [matches |-> storedMatches, scores |-> storedScores, moves |-> storedMoves,
     attendance |-> storedAttendance]

\* DELETE teams?id=eq.<id>
deleteTeamFromSupabaseById(table, id) == {r \in table : r.id # id}

TeamRow(id, name, d) == [id |-> id, name |-> name, division |-> d]

\* the device keeps nothing but the attendance, the Manage Teams screen is
\* as constructed
TeamAdminScreenInit ==
    /\ adminDbTeams = {}
    /\ showDeleteBox = FALSE
    /\ deleteTeamName = <<>>
    /\ deleteTeamId = <<>>
    /\ deleteConfirmText = <<>>
    /\ adminStatus = ""
    /\ adminError = ""

TeamAdminClosed ==
    /\ teamsTable = {}
    /\ storedMatches = <<>>
    /\ storedScores = NoRows
    /\ storedMoves = <<>>
    /\ storedAttendance = DeviceAttendance
    /\ TeamAdminScreenInit

\* a device with matches, scores, moves and attendance of team c, which was
\* added to the Intermediate division in the backend
TeamAdminInit ==
    /\ teamsTable = {TeamRow(<<"7">>, NameC, "Intermediate")}
    /\ storedMatches = << SavedMatch(1, 1, "Advanced", TIMES[1], 1, NameC, NameB),
                          SavedMatch(2, 2, "Advanced", TIMES[1], 1, NameA, NameC),
                          SavedMatch(3, 2, "Advanced", TIMES[2], 1, NameA, NameB) >>
    /\ storedScores = [id \in {1, 3} |-> "verified"]
    /\ storedMoves = <<[team |-> NameC], [team |-> NameA]>>
    /\ storedAttendance = [w \in {1, 2} |-> [t \in {NameA, NameC} |-> t = NameA \/ w = 1]]
    /\ TeamAdminScreenInit

\* the names the screen lists for the division
TeamAdminNames == {NameC, TeamP}

----------------------------------------------------------------------------
(* The three readers of a stored score row.  team_a and team_b are JSON
   objects of the backend; a field g1, g2 or g3 is null (or missing), a JSON
   string or a JSON number. *)

JsonNull == [type |-> "null", text |-> <<>>, value |-> 0]

JsonString(s) == [type |-> "string", text |-> s, value |-> 0]

JsonNumber(n) == [type |-> "number", text |-> <<>>, value |-> n]

\* String(v) of a JSON string or number
String(v) == IF v.type = "string" THEN v.text ELSE NumberToString(v.value)

\* standings.tsx 981-986: v?.g1 == null ? '' : String(v.g1)
stringOrNull(v) == IF v.type = "null" THEN Null ELSE Some(String(v))

asScoreFields_standings(v) ==
    asScoreFields([g1 |-> stringOrNull(v.g1), g2 |-> stringOrNull(v.g2), g3 |-> stringOrNull(v.g3)])

\* _layout.tsx 224-229 and part_005 194-199: typeof v?.g1 === 'string' ? v.g1 : ''
stringOrEmpty(v) == IF v.type = "string" THEN v.text ELSE <<>>

asScoreFields_results(v) ==
    [g1 |-> stringOrEmpty(v.g1), g2 |-> stringOrEmpty(v.g2), g3 |-> stringOrEmpty(v.g3)]

asScoreFields_scoring(v) ==
    [g1 |-> stringOrEmpty(v.g1), g2 |-> stringOrEmpty(v.g2), g3 |-> stringOrEmpty(v.g3)]

\* _layout.tsx 305-311
isEnteredScore_results(v) == Trim(v) # <<>>

gameEnteredPair_results(a, b) == isEnteredScore_results(a) /\ isEnteredScore_results(b)

Slots == {"g1", "g2", "g3"}

\* _layout.tsx 312-321
enteredGamesCount(fieldsA, fieldsB) ==
    Cardinality({g \in Slots : gameEnteredPair_results(fieldsA[g], fieldsB[g])})

\* _layout.tsx 524-531
resultsLabel(enteredGames) ==
    IF enteredGames = 0 THEN Null
    ELSE IF enteredGames < 3 THEN Some("PARTIAL") ELSE Some("COMPLETED")

\* part_005 398-410
persistedCompletionLabel(p) ==
    LET enteredCount == Cardinality({g \in Slots : gameEnteredPair_scoring(p.teamA[g], p.teamB[g])})
    IN  IF enteredCount = 0 THEN Null
        ELSE IF enteredCount = 3 THEN Some("COMPLETED") ELSE Some("PARTIAL")

\* what a reader made of the row: the slots it takes as entered and its label
Reading(slots, label) == [slots |-> slots, count |-> Cardinality(slots), label |-> label]

\* the values of a field of a stored row
JsonScores == {JsonNull, JsonString(<<>>), JsonString(<<"7">>), JsonString(<<" ">>), JsonNumber(7)}

JsonFields == [g1 : JsonScores, g2 : JsonScores, g3 : JsonScores]

ScoreRowUnread ==
    /\ storedScoreRow \in [team_a : JsonFields, team_b : JsonFields]
    /\ scoringReading = Null
    /\ resultsReading = Null
    /\ standingsReading = Null

NoScores == [g1 |-> JsonNull, g2 |-> JsonNull, g3 |-> JsonNull]

\* a row without scores that no reader has loaded
ScoreRowClosed ==
    /\ storedScoreRow = [team_a |-> NoScores, team_b |-> NoScores]
    /\ scoringReading = Null
    /\ resultsReading = Null
    /\ standingsReading = Null

\* the screens that came after the first three, not open
LaterClosed == AttendanceClosed /\ ReloadIdle /\ TeamAdminClosed /\ ScoreRowClosed

----------------------------------------------------------------------------
(* The screen *)

StandingsInit ==
    /\ matches = <<>>
    /\ scores = [k \in {} |-> 0]
    /\ baseRows = <<>>
    /\ divisionMoves = <<>>
    /\ dbTeams = [d \in Division |-> <<>>]
    /\ teamsLoadError = ""
    /\ matchesLoadError = ""
    /\ scoresLoadError = ""
    /\ baseLoadError = ""

Init ==
    /\ StandingsInit
    /\ ScheduleClosed
    /\ ScoringClosed
    /\ LaterClosed

refreshTeams ==
    /\ \/ \E rows \in TeamRowLists :
            /\ dbTeams' = groupTeams(rows)
            /\ teamsLoadError' = ""
       \/ /\ teamsLoadError' = "Failed to load teams from Supabase."
          /\ UNCHANGED dbTeams
    /\ UNCHANGED <<matches, scores, baseRows, divisionMoves,
                   matchesLoadError, scoresLoadError, baseLoadError>>
    /\ UNCHANGED outsideStandings

refreshMatches ==
    /\ \/ \E rows \in MatchRowLists :
            /\ matches' = parseMatches(rows)
            /\ matchesLoadError' = ""
       \/ /\ matches' = <<>>
          /\ matchesLoadError' = "Failed to load matches from Supabase."
    /\ UNCHANGED <<scores, baseRows, divisionMoves, dbTeams,
                   teamsLoadError, scoresLoadError, baseLoadError>>
    /\ UNCHANGED outsideStandings

refreshScores ==
    /\ \/ \E rows \in ScoreRowLists :
            /\ scores' = parseScores(rows)
            /\ scoresLoadError' = ""
       \/ /\ scores' = [k \in {} |-> 0]
          /\ scoresLoadError' = "Failed to load match scores from Supabase."
    /\ UNCHANGED <<matches, baseRows, divisionMoves, dbTeams,
                   teamsLoadError, matchesLoadError, baseLoadError>>
    /\ UNCHANGED outsideStandings

loadAdminData ==
    /\ \/ \E rows \in BaseRowLists :
            /\ baseRows' = parseBase(rows)
            /\ baseLoadError' = ""
       \/ /\ baseRows' = <<>>
          /\ baseLoadError' = "Failed to load Week 1 baseline from Supabase."
    /\ \/ \E rows \in MoveRowLists : divisionMoves' = parseMoves(rows)
       \/ divisionMoves' = <<>>
    /\ UNCHANGED <<matches, scores, dbTeams,
                   teamsLoadError, matchesLoadError, scoresLoadError>>
    /\ UNCHANGED outsideStandings

Next == refreshTeams \/ refreshMatches \/ refreshScores \/ loadAdminData

Spec == Init /\ [][Next]_vars

----------------------------------------------------------------------------
(* The schedule builder screen *)

InitSchedule ==
    /\ StandingsInit
    /\ ScheduleInit
    /\ ScoringClosed
    /\ LaterClosed

\* the effect of lines 591-634
defaultWeekOf(storedCurrentWeek, list) ==
    LET cw     == IF storedCurrentWeek = Null THEN 0 ELSE safeInt(storedCurrentWeek[1], 0)
        newest == getNewestWeekFromMatches(list)
    IN  IF cw > 0 THEN cw
        ELSE IF newest # Null /\ newest[1] > 0 THEN newest[1]
        ELSE 1

loadOnMount ==
    /\ ~mounted
    /\ mounted' = TRUE
    /\ \/ \E storedCurrentWeek \in StoredCurrentWeeks :
            LET table == maybeMigrateLegacyMatches(matchesTable, legacyMatches, migrated)
                list  == fetchMatchesFromSupabase(table)
                w     == defaultWeekOf(storedCurrentWeek, list)
            IN  /\ matchesTable' = table
                /\ migrated' = TRUE
                /\ savedMatches' = list
                /\ listWeekFilter' = NumberToString(w)
                /\ week' = NumberToString(w)
                /\ attendance' = loadAttendanceForTypedWeek(w)
       \/ /\ savedMatches' = <<>>
          /\ listWeekFilter' = <<"1">>
          /\ week' = <<"1">>
          /\ attendance' = loadAttendanceForTypedWeek(1)
          /\ UNCHANGED <<matchesTable, migrated>>
    /\ UNCHANGED <<legacyMatches, writes, division, time, court, teamA, teamB, editingId,
                   statusMsg, errorMsg, confirmDialog, showClearWeekConfirm,
                   clearWeekConfirmText>>
    /\ UNCHANGED outsideSchedule

Outcome(e, c) == [errorMsg |-> e, confirm |-> c]

\* the variant that looks for a conflict before attendance and booked teams
saveOrUpdateOutcomeConflictFirst(f, att) ==
    IF ~readyToSave(f) \/ f.teamA = <<>> \/ f.teamB = <<>> THEN Outcome(IncompleteMsg, Null)
    ELSE IF findConflictMessage(f) # Null THEN Outcome(findConflictMessage(f)[1], Null)
    ELSE IF isTeamOutForTypedWeek(att, f.teamA) \/ isTeamOutForTypedWeek(att, f.teamB)
         THEN Outcome(AttendanceMsg(f), Null)
    ELSE IF isTeamBookedThisSlot(f, f.teamA) \/ isTeamBookedThisSlot(f, f.teamB)
         THEN Outcome(AlreadyScheduledMsg(f), Null)
    ELSE Outcome(NoMsg, Some(confirmMessage(f)))

\* the variant that only looks for a booked court
saveOrUpdateOutcomeCourtOnly(f, att) ==
    IF ~readyToSave(f) \/ f.teamA = <<>> \/ f.teamB = <<>> THEN Outcome(IncompleteMsg, Null)
    ELSE IF isTeamOutForTypedWeek(att, f.teamA) \/ isTeamOutForTypedWeek(att, f.teamB)
         THEN Outcome(AttendanceMsg(f), Null)
    ELSE IF \E i \in 1..Len(savedMatches) :
               /\ ~isEdited(savedMatches[i])
               /\ savedMatches[i].week = weekNum(f)
               /\ savedMatches[i].time = f.time
               /\ savedMatches[i].court = f.court
         THEN Outcome(CourtConflictMsg(f, f.division), Null)
    ELSE Outcome(NoMsg, Some(confirmMessage(f)))

\* what saveOrUpdate ends with: the error message and the confirmation it
\* opens (confirmSeasonPopupThenSave)
saveOrUpdateOutcome(f, att) ==
    IF ~readyToSave(f) \/ f.teamA = <<>> \/ f.teamB = <<>> THEN Outcome(IncompleteMsg, Null)
    ELSE IF isTeamOutForTypedWeek(att, f.teamA) \/ isTeamOutForTypedWeek(att, f.teamB)
         THEN Outcome(AttendanceMsg(f), Null)
    ELSE IF isTeamBookedThisSlot(f, f.teamA) \/ isTeamBookedThisSlot(f, f.teamB)
         THEN Outcome(AlreadyScheduledMsg(f), Null)
    ELSE IF findConflictMessage(f) # Null THEN Outcome(findConflictMessage(f)[1], Null)
    ELSE Outcome(NoMsg, Some(confirmMessage(f)))

\* The admin fills the form (setWeek, setDivision, setTime, setCourt,
\* setTeamA, setTeamB; the attendance of the typed week is reloaded) or
\* leaves it as it is, and presses Save.
saveOrUpdate(f) ==
    /\ mounted
    /\ confirmDialog = Null
    /\ week' = f.week
    /\ division' = f.division
    /\ time' = f.time
    /\ court' = f.court
    /\ teamA' = f.teamA
    /\ teamB' = f.teamB
    /\ attendance' = loadAttendanceForTypedWeek(weekNum(f))
    /\ statusMsg' = ""
    /\ LET out == saveOrUpdateOutcome(f, loadAttendanceForTypedWeek(weekNum(f)))
       IN  /\ errorMsg' = out.errorMsg
           /\ confirmDialog' = out.confirm
    /\ UNCHANGED <<matchesTable, legacyMatches, writes, migrated, mounted, savedMatches, editingId,
                   listWeekFilter, showClearWeekConfirm, clearWeekConfirmText>>
    /\ UNCHANGED outsideSchedule

\* the record doSave writes
recordOf(id, f) ==
    SavedMatch(id, weekNum(f), f.division, f.time, f.court, f.teamA, f.teamB)

\* stands for `${Date.now()}_${Math.random()...}`: an id no match has
NewId == writes + 1

doSaveId == IF editingId # Null THEN editingId[1] ELSE NewId

\* the variant that leaves the edit mode when the upsert fails
confirmContinueLeavingEdit(limit) ==
    /\ confirmDialog # Null
    /\ confirmDialog' = Null
    /\ LET table == upsertMatchToSupabase(matchesTable, recordOf(doSaveId, CurrentForm))
       IN  \/ /\ writes < limit
              /\ writes' = writes + 1
              /\ matchesTable' = table
              /\ savedMatches' = fetchMatchesFromSupabase(table)
              /\ listWeekFilter' = NumberToString(weekNum(CurrentForm))
              /\ editingId' = Null
              /\ statusMsg' = (IF editingId # Null THEN "Updated match." ELSE "Saved match.")
              /\ UNCHANGED errorMsg
           \/ /\ errorMsg' = UpsertFailedMsg
              /\ editingId' = Null
              /\ UNCHANGED <<matchesTable, writes, savedMatches, statusMsg, listWeekFilter>>
           \/ /\ writes < limit
              /\ writes' = writes + 1
              /\ matchesTable' = table
              /\ errorMsg' = SelectFailedMsg
              /\ UNCHANGED <<savedMatches, editingId, statusMsg, listWeekFilter>>
    /\ UNCHANGED <<legacyMatches, migrated, mounted, week, division, time, court,
                   teamA, teamB, attendance, showClearWeekConfirm, clearWeekConfirmText>>
    /\ UNCHANGED outsideSchedule

\* Continue (or OK) in the confirmation: doSave; at most limit writes reach
\* the backend
confirmContinueUpTo(limit) ==
    /\ confirmDialog # Null
    /\ confirmDialog' = Null
    /\ LET table == upsertMatchToSupabase(matchesTable, recordOf(doSaveId, CurrentForm))
       IN  \/ /\ writes < limit
              /\ writes' = writes + 1
              /\ matchesTable' = table
              /\ savedMatches' = fetchMatchesFromSupabase(table)
              /\ listWeekFilter' = NumberToString(weekNum(CurrentForm))
              /\ editingId' = Null
              /\ statusMsg' = (IF editingId # Null THEN "Updated match." ELSE "Saved match.")
              /\ UNCHANGED errorMsg
           \/ /\ errorMsg' = UpsertFailedMsg
              /\ UNCHANGED <<matchesTable, writes, savedMatches, editingId, statusMsg,
                             listWeekFilter>>
           \/ /\ writes < limit
              /\ writes' = writes + 1
              /\ matchesTable' = table
              /\ errorMsg' = SelectFailedMsg
              /\ UNCHANGED <<savedMatches, editingId, statusMsg, listWeekFilter>>
    /\ UNCHANGED <<legacyMatches, migrated, mounted, week, division, time, court,
                   teamA, teamB, attendance, showClearWeekConfirm, clearWeekConfirmText>>
    /\ UNCHANGED outsideSchedule

confirmContinue == confirmContinueUpTo(MaxWrites)

\* Cancel in the confirmation
confirmCancel ==
    /\ confirmDialog # Null
    /\ confirmDialog' = Null
    /\ UNCHANGED <<matchesTable, legacyMatches, writes, migrated, mounted, savedMatches,
                   week, division, time, court, teamA, teamB, editingId, attendance,
                   statusMsg, errorMsg, listWeekFilter, showClearWeekConfirm,
                   clearWeekConfirmText>>
    /\ UNCHANGED outsideSchedule

\* the effect of lines 893-898, which runs when the division changes
keepSelection(list, t, k) ==
    IF \E i \in 1..Len(list) : list[i] = t THEN t
    ELSE IF Len(list) >= k THEN list[k] ELSE <<>>

startEdit(m) ==
    /\ mounted
    /\ confirmDialog = Null
    /\ statusMsg' = ""
    /\ errorMsg' = NoMsg
    /\ editingId' = Some(m.id)
    /\ week' = NumberToString(m.week)
    /\ division' = m.division
    /\ time' = m.time
    /\ court' = m.court
    /\ teamA' = (IF m.division # division
                 THEN keepSelection(teamsOfDivision(m.division), m.teamA, 1) ELSE m.teamA)
    /\ teamB' = (IF m.division # division
                 THEN keepSelection(teamsOfDivision(m.division), m.teamB, 2) ELSE m.teamB)
    /\ attendance' = loadAttendanceForTypedWeek(m.week)
    /\ listWeekFilter' = NumberToString(m.week)
    /\ UNCHANGED <<matchesTable, legacyMatches, writes, migrated, mounted, savedMatches, confirmDialog,
                   showClearWeekConfirm, clearWeekConfirmText>>
    /\ UNCHANGED outsideSchedule

cancelEdit ==
    /\ mounted
    /\ confirmDialog = Null
    /\ editingId' = Null
    /\ statusMsg' = ""
    /\ errorMsg' = NoMsg
    /\ UNCHANGED <<matchesTable, legacyMatches, writes, migrated, mounted, savedMatches,
                   week, division, time, court, teamA, teamB, attendance, confirmDialog,
                   listWeekFilter, showClearWeekConfirm, clearWeekConfirmText>>
    /\ UNCHANGED outsideSchedule

deleteMatchUpTo(id, limit) ==
    /\ mounted
    /\ confirmDialog = Null
    /\ LET table == deleteMatchFromSupabase(matchesTable, id)
       IN  \/ /\ writes < limit
              /\ writes' = writes + 1
              /\ matchesTable' = table
              /\ savedMatches' = fetchMatchesFromSupabase(table)
              /\ editingId' = (IF editingId = Some(id) THEN Null ELSE editingId)
              /\ statusMsg' = "Deleted match."
              /\ errorMsg' = NoMsg
           \/ /\ errorMsg' = DeleteFailedMsg
              /\ statusMsg' = ""
              /\ UNCHANGED <<matchesTable, writes, savedMatches, editingId>>
           \/ /\ writes < limit
              /\ writes' = writes + 1
              /\ matchesTable' = table
              /\ errorMsg' = SelectFailedMsg
              /\ statusMsg' = ""
              /\ UNCHANGED <<savedMatches, editingId>>
    /\ UNCHANGED <<legacyMatches, migrated, mounted, week, division, time, court,
                   teamA, teamB, attendance, confirmDialog, listWeekFilter,
                   showClearWeekConfirm, clearWeekConfirmText>>
    /\ UNCHANGED outsideSchedule

deleteMatch(id) == deleteMatchUpTo(id, MaxWrites)

SavedOnes == {savedMatches[i] : i \in 1..Len(savedMatches)}

NextSchedule ==
    \/ loadOnMount
    \/ \E f \in Forms \cup {CurrentForm} : saveOrUpdate(f)
    \/ confirmContinue
    \/ confirmCancel
    \/ \E m \in SavedOnes : startEdit(m)
    \/ cancelEdit
    \/ \E m \in SavedOnes : deleteMatch(m.id)

SpecSchedule == InitSchedule /\ [][NextSchedule]_vars

----------------------------------------------------------------------------
(* The schedule builder with the list week filter and Clear Week, opened   *)
(* on an empty matches table                                               *)

formUnchanged == UNCHANGED <<week, division, time, court, teamA, teamB, attendance>>

backendUnchanged == UNCHANGED <<matchesTable, legacyMatches, migrated, writes>>

\* the picker of the list week filter
setListWeekFilter(v) ==
    /\ mounted
    /\ confirmDialog = Null
    /\ listWeekFilter' = v
    /\ formUnchanged
    /\ backendUnchanged
    /\ UNCHANGED <<mounted, savedMatches, editingId, statusMsg, errorMsg, confirmDialog,
                   showClearWeekConfirm, clearWeekConfirmText>>
    /\ UNCHANGED outsideSchedule

\* the values the picker offers
PickerValues ==
    {ALL} \cup (IF weekOptions(savedMatches) = {} THEN {<<"1">>}
                ELSE {NumberToString(w) : w \in weekOptions(savedMatches)})

openClearWeekConfirm ==
    /\ mounted
    /\ confirmDialog = Null
    /\ statusMsg' = ""
    /\ errorMsg' = NoMsg
    /\ clearWeekConfirmText' = <<>>
    /\ showClearWeekConfirm' = TRUE
    /\ formUnchanged
    /\ backendUnchanged
    /\ UNCHANGED <<mounted, savedMatches, editingId, confirmDialog, listWeekFilter>>
    /\ UNCHANGED outsideSchedule

\* typing into the confirmation field, shown with the confirmation
setClearWeekConfirmText(t) ==
    /\ showClearWeekConfirm
    /\ confirmDialog = Null
    /\ clearWeekConfirmText' = t
    /\ formUnchanged
    /\ backendUnchanged
    /\ UNCHANGED <<mounted, savedMatches, editingId, statusMsg, errorMsg, confirmDialog,
                   listWeekFilter, showClearWeekConfirm>>
    /\ UNCHANGED outsideSchedule

confirmClearWeek ==
    /\ showClearWeekConfirm
    /\ confirmDialog = Null
    /\ LET targetWeek == getTargetWeekForClearWeek(listWeekFilter, week)
           table      == deleteWeekFromSupabase(matchesTable, targetWeek)
       IN  IF targetWeek <= 0
           THEN /\ errorMsg' = PickWeekMsg
                /\ showClearWeekConfirm' = FALSE
                /\ UNCHANGED <<matchesTable, writes, savedMatches, statusMsg,
                               listWeekFilter, clearWeekConfirmText>>
           ELSE IF Trim(clearWeekConfirmText) # <<"D", "e", "l", "e", "t", "e">>
           THEN /\ errorMsg' = TypeDeleteMsg
                /\ UNCHANGED <<matchesTable, writes, savedMatches, statusMsg,
                               listWeekFilter, showClearWeekConfirm, clearWeekConfirmText>>
           ELSE \/ /\ matchesTable' = table
                   /\ savedMatches' = fetchMatchesFromSupabase(table)
                   /\ showClearWeekConfirm' = FALSE
                   /\ clearWeekConfirmText' = <<>>
                   /\ listWeekFilter' = NumberToString(targetWeek)
                   /\ statusMsg' = "Cleared Week matches."
                   /\ UNCHANGED <<writes, errorMsg>>
                \/ /\ errorMsg' = DeleteWeekFailedMsg
                   /\ UNCHANGED <<matchesTable, writes, savedMatches, statusMsg,
                                  listWeekFilter, showClearWeekConfirm, clearWeekConfirmText>>
                \/ /\ matchesTable' = table
                   /\ errorMsg' = SelectFailedMsg
                   /\ UNCHANGED <<writes, savedMatches, statusMsg, listWeekFilter,
                                  showClearWeekConfirm, clearWeekConfirmText>>
    /\ formUnchanged
    /\ UNCHANGED <<legacyMatches, migrated, mounted, editingId, confirmDialog>>
    /\ UNCHANGED outsideSchedule

cancelClearWeek ==
    /\ showClearWeekConfirm
    /\ confirmDialog = Null
    /\ showClearWeekConfirm' = FALSE
    /\ clearWeekConfirmText' = <<>>
    /\ formUnchanged
    /\ backendUnchanged
    /\ UNCHANGED <<mounted, savedMatches, editingId, statusMsg, errorMsg, confirmDialog,
                   listWeekFilter>>
    /\ UNCHANGED outsideSchedule

NextBuilder ==
    \/ loadOnMount
    \/ \E f \in BookingForms \cup {CurrentForm} : saveOrUpdate(f)
    \/ confirmContinueUpTo(MaxBookings)
    \/ confirmCancel
    \/ \E m \in SavedOnes : startEdit(m)
    \/ cancelEdit
    \/ \E m \in SavedOnes : deleteMatchUpTo(m.id, MaxBookings)
    \/ \E v \in PickerValues : setListWeekFilter(v)
    \/ openClearWeekConfirm
    \/ \E t \in ConfirmTexts : setClearWeekConfirmText(t)
    \/ confirmClearWeek
    \/ cancelClearWeek

SpecBuilder == Init /\ [][NextBuilder]_vars

\* Clear Week on a backend that holds a match of week 1 and a match of
\* week 2: the admin types a week into the form, picks a list week filter
\* and uses the Clear Week confirmation; no match is saved or edited.
InitClearWeek ==
    /\ StandingsInit
    /\ ScoringClosed
    /\ matchesTable = TwoWeeksTable
    /\ legacyMatches = <<>>
    /\ migrated = FALSE
    /\ ScheduleFormInit
    /\ LaterClosed

NextClearWeek ==
    \/ loadOnMount
    \/ \E f \in BookingForms \cup {CurrentForm} : saveOrUpdate(f)
    \/ confirmCancel
    \/ \E v \in PickerValues : setListWeekFilter(v)
    \/ openClearWeekConfirm
    \/ \E t \in ConfirmTexts : setClearWeekConfirmText(t)
    \/ confirmClearWeek
    \/ cancelClearWeek

SpecClearWeek == InitClearWeek /\ [][NextClearWeek]_vars

----------------------------------------------------------------------------
(* The scoring screen *)

InitScoring ==
    /\ StandingsInit
    /\ ScheduleClosed
    /\ ScoringClosed
    /\ LaterClosed

\* loadIdentity and loadAdmin of the mount and focus effects
loadIdentityAndAdmin ==
    /\ verifyDialog = Null
    /\ \E who \in Identities :
          /\ isAdmin' = who.admin
          /\ myTeam' = who.team
          /\ myPlayerName' = who.player
    /\ UNCHANGED <<matchScoresTable, draftScores, persisted, verifyDialog, lastAlert>>
    /\ UNCHANGED outsideScoring

refreshPersistedScores ==
    /\ verifyDialog = Null
    /\ \/ persisted' = fetchMatchScoresFromSupabase(matchScoresTable)
       \/ persisted' = NoRows
    /\ UNCHANGED <<matchScoresTable, isAdmin, myTeam, myPlayerName, draftScores,
                   verifyDialog, lastAlert>>
    /\ UNCHANGED outsideScoring

\* setScore: the draft of the team with one field replaced
setScore(drafts, box, value) ==
    LET key      == getTeamKey(box.m.id, box.team)
        existing == getFields(drafts, box.m.id, box.team, fieldsOfSide(persisted, box.m.id, box.side))
        next     == [existing EXCEPT ![box.field] = value]
    IN  [k \in DOMAIN drafts \cup {key} |-> IF k = key THEN next ELSE drafts[k]]

\* onChangeText of a ScoreInput of an editable match
onChangeText(box, t) ==
    /\ verifyDialog = Null
    /\ canEditMatch(box.m)
    /\ draftScores' = setScore(draftScores, box, sanitizeAndClampScore(t))
    /\ UNCHANGED <<matchScoresTable, isAdmin, myTeam, myPlayerName, persisted,
                   verifyDialog, lastAlert>>
    /\ UNCHANGED outsideScoring

onVerifyAndSave(m) ==
    /\ verifyDialog = Null
    /\ IF ~canEditMatch(m)
       THEN /\ lastAlert' = "Not allowed"
            /\ UNCHANGED verifyDialog
       ELSE /\ verifyDialog' = Some(scoreRowOf(m))
            /\ lastAlert' = ""
    /\ UNCHANGED <<matchScoresTable, isAdmin, myTeam, myPlayerName, draftScores, persisted>>
    /\ UNCHANGED outsideScoring

\* Yes, Verify & Save (or OK): doSave
verifyConfirm ==
    /\ verifyDialog # Null
    /\ verifyDialog' = Null
    /\ LET table == upsertMatchScoreToSupabase(matchScoresTable, verifyDialog[1])
       IN  \/ /\ matchScoresTable' = table
              /\ persisted' = fetchMatchScoresFromSupabase(table)
              /\ UNCHANGED lastAlert
           \/ /\ matchScoresTable' = table
              /\ persisted' = NoRows
              /\ UNCHANGED lastAlert
           \/ /\ lastAlert' = "Save failed"
              /\ UNCHANGED <<matchScoresTable, persisted>>
    /\ UNCHANGED <<isAdmin, myTeam, myPlayerName, draftScores>>
    /\ UNCHANGED outsideScoring

verifyCancel ==
    /\ verifyDialog # Null
    /\ verifyDialog' = Null
    /\ UNCHANGED <<matchScoresTable, isAdmin, myTeam, myPlayerName, draftScores, persisted,
                   lastAlert>>
    /\ UNCHANGED outsideScoring

NextScoring ==
    \/ loadIdentityAndAdmin
    \/ refreshPersistedScores
    \/ \E box \in ScoreBoxes, t \in ScoreTexts : onChangeText(box, t)
    \/ \E m \in ScoringMatches : onVerifyAndSave(m)
    \/ verifyConfirm
    \/ verifyCancel

SpecScoring == InitScoring /\ [][NextScoring]_vars

----------------------------------------------------------------------------
(* The Manage Teams screen *)

outsideTeamAdmin == <<standingsVars, scheduleVars, scoringVars, attendanceVars, reloadVars,
                      scoreRowVars>>

InitTeamAdmin ==
    /\ StandingsInit
    /\ ScheduleClosed
    /\ ScoringClosed
    /\ AttendanceClosed
    /\ ReloadIdle
    /\ ScoreRowClosed
    /\ TeamAdminInit

\* refreshTeams, called by the mount effect
adminRefreshTeams ==
    /\ adminStatus' = ""
    /\ \/ adminDbTeams' = teamsTable /\ adminError' = ""
       \/ adminError' = "Failed to load teams from Supabase." /\ UNCHANGED adminDbTeams
    /\ UNCHANGED <<teamsTable, deviceVars, showDeleteBox, deleteTeamName, deleteTeamId,
                   deleteConfirmText>>
    /\ UNCHANGED outsideTeamAdmin

openDelete(name) ==
    /\ adminStatus' = ""
    /\ IF \E row \in adminDbTeams : row.name = name
       THEN /\ adminError' = ""
            /\ showDeleteBox' = TRUE
            /\ deleteTeamName' = name
            /\ deleteTeamId' = (CHOOSE row \in adminDbTeams : row.name = name).id
            /\ deleteConfirmText' = <<>>
       ELSE /\ adminError' = "Only teams you added (stored in Supabase) can be deleted."
            /\ UNCHANGED <<showDeleteBox, deleteTeamName, deleteTeamId, deleteConfirmText>>
    /\ UNCHANGED <<teamsTable, deviceVars, adminDbTeams>>
    /\ UNCHANGED outsideTeamAdmin

setDeleteConfirmText(t) ==
    /\ showDeleteBox
    /\ deleteConfirmText' = t
    /\ UNCHANGED <<teamsTable, deviceVars, adminDbTeams, showDeleteBox, deleteTeamName,
                   deleteTeamId, adminStatus, adminError>>
    /\ UNCHANGED outsideTeamAdmin

cancelDelete ==
    /\ showDeleteBox
    /\ showDeleteBox' = FALSE
    /\ deleteTeamName' = <<>>
    /\ deleteTeamId' = <<>>
    /\ deleteConfirmText' = <<>>
    /\ UNCHANGED <<teamsTable, deviceVars, adminDbTeams, adminStatus, adminError>>
    /\ UNCHANGED outsideTeamAdmin

\* the device storage after confirmDelete has done the first done writes
storageAfter(done) ==
    LET st == applyWrites(DeviceStorage, writesOf(DeviceStorage, normalizeName(deleteTeamName)), done)
    IN  /\ storedMatches' = st.matches
        /\ storedScores' = st.scores
        /\ storedMoves' = st.moves
        /\ storedAttendance' = st.attendance

confirmDelete ==
    /\ showDeleteBox
    /\ adminStatus' = ""
    /\ LET name == normalizeName(deleteTeamName)
           id   == normalizeName(deleteTeamId)
           ws   == writesOf(DeviceStorage, name)
           boxKept == UNCHANGED <<showDeleteBox, deleteTeamName, deleteTeamId, deleteConfirmText>>
       IN  IF name = <<>> \/ id = <<>>
           THEN /\ adminError' = "Pick a team to delete."
                /\ boxKept
                /\ UNCHANGED <<teamsTable, deviceVars, adminDbTeams>>
           ELSE IF Trim(deleteConfirmText) # <<"D", "e", "l", "e", "t", "e">>
           THEN /\ adminError' = "To confirm, type exactly: Delete"
                /\ boxKept
                /\ UNCHANGED <<teamsTable, deviceVars, adminDbTeams>>
           ELSE \/ /\ adminError' = "Supabase DELETE failed"
                   /\ boxKept
                   /\ UNCHANGED <<teamsTable, deviceVars, adminDbTeams>>
                \/ \E done \in 0..(Len(ws) - 1) :
                      /\ teamsTable' = deleteTeamFromSupabaseById(teamsTable, id)
                      /\ storageAfter(done)
                      /\ adminError' = "AsyncStorage setItem failed"
                      /\ boxKept
                      /\ UNCHANGED adminDbTeams
                \/ /\ teamsTable' = deleteTeamFromSupabaseById(teamsTable, id)
                   /\ storageAfter(Len(ws))
                   /\ showDeleteBox' = FALSE
                   /\ deleteTeamName' = <<>>
                   /\ deleteTeamId' = <<>>
                   /\ deleteConfirmText' = <<>>
                   /\ \/ /\ adminDbTeams' = deleteTeamFromSupabaseById(teamsTable, id)
                         /\ adminError' = ""
                      \/ /\ adminError' = "Failed to load teams from Supabase."
                         /\ UNCHANGED adminDbTeams
    /\ UNCHANGED outsideTeamAdmin

NextTeamAdmin ==
    \/ adminRefreshTeams
    \/ \E name \in TeamAdminNames : openDelete(name)
    \/ \E t \in ConfirmTexts : setDeleteConfirmText(t)
    \/ cancelDelete
    \/ confirmDelete

SpecTeamAdmin == InitTeamAdmin /\ [][NextTeamAdmin]_vars

----------------------------------------------------------------------------
(* One stored score row read by the three screens *)

outsideScoreRow == <<standingsVars, scheduleVars, scoringVars, attendanceVars, reloadVars,
                     teamAdminVars>>

InitScoreRow ==
    /\ StandingsInit
    /\ ScheduleClosed
    /\ ScoringClosed
    /\ AttendanceClosed /\ ReloadIdle /\ TeamAdminClosed
    /\ ScoreRowUnread

\* part_005 213-227 fetchMatchScoresFromSupabase, 398-410 persistedCompletionLabel
readOnScoringScreen ==
    /\ scoringReading = Null
    /\ LET p == [teamA |-> asScoreFields_scoring(storedScoreRow.team_a),
                 teamB |-> asScoreFields_scoring(storedScoreRow.team_b)]
       IN  scoringReading' =
               Some(Reading({g \in Slots : gameEnteredPair_scoring(p.teamA[g], p.teamB[g])},
                            persistedCompletionLabel(p)))
    /\ UNCHANGED <<storedScoreRow, resultsReading, standingsReading, outsideScoreRow>>

\* _layout.tsx 266-293 fetchMatchScoresFromSupabase, 516-531 the card of a match
readOnResultsScreen ==
    /\ resultsReading = Null
    /\ LET aFields == asScoreFields_results(storedScoreRow.team_a)
           bFields == asScoreFields_results(storedScoreRow.team_b)
       IN  resultsReading' =
               Some(Reading({g \in Slots : gameEnteredPair_results(aFields[g], bFields[g])},
                            resultsLabel(enteredGamesCount(aFields, bFields))))
    /\ UNCHANGED <<storedScoreRow, scoringReading, standingsReading, outsideScoreRow>>

\* standings.tsx 988-1010 fetchMatchScoresFromSupabase, 1318-1342 the slots the
\* aggregator counts; the aggregator shows no label
readOnStandings ==
    /\ standingsReading = Null
    /\ LET a == asScoreFields_standings(storedScoreRow.team_a)
           b == asScoreFields_standings(storedScoreRow.team_b)
       IN  standingsReading' =
               Some(Reading({g \in Slots : gameEnteredPair(a[g], b[g])}, Null))
    /\ UNCHANGED <<storedScoreRow, scoringReading, resultsReading, outsideScoreRow>>

NextScoreRow == readOnScoringScreen \/ readOnResultsScreen \/ readOnStandings

SpecScoreRow == InitScoreRow /\ [][NextScoreRow]_vars

----------------------------------------------------------------------------
(* Reloads of the standings screen that overlap *)

reloadFrame ==
    UNCHANGED <<scores, baseRows, divisionMoves, dbTeams, teamsLoadError, scoresLoadError,
                baseLoadError, scheduleVars, scoringVars, attendanceVars, teamAdminVars,
                scoreRowVars>>

\* another client changes the matches table
backendWrite(rows) ==
    /\ rows # matchRows
    /\ matchRows' = rows
    /\ UNCHANGED <<matches, matchesLoadError, requests, issued, shown, newestDone, newestMatches>>
    /\ reloadFrame

\* refreshMatches is called by the mount effect or the focus effect: the
\* error is cleared and the request is sent
startRefreshMatches ==
    /\ issued < MaxReloads
    /\ issued' = issued + 1
    /\ matchesLoadError' = ""
    /\ requests' = requests \cup {[seq |-> issued + 1, answer |-> Null]}
    /\ UNCHANGED <<matches, matchRows, shown, newestDone, newestMatches>>
    /\ reloadFrame

\* the backend answers a request with the rows it holds, or the request fails
answerRequest(r) ==
    /\ r.answer = Null
    /\ \E a \in {Answer(TRUE, matchRows), Answer(FALSE, <<>>)} :
          requests' = (requests \ {r}) \cup {[seq |-> r.seq, answer |-> Some(a)]}
    /\ UNCHANGED <<matches, matchesLoadError, matchRows, issued, shown, newestDone, newestMatches>>
    /\ reloadFrame

\* the list a completed request leaves in the state
listOf(r) == IF r.answer[1].ok THEN parseMatches(r.answer[1].rows) ELSE <<>>

\* the variant with a generation counter: a response older than one already
\* applied is dropped
completeRefreshMatchesInOrder(r) ==
    /\ r.answer # Null
    /\ requests' = requests \ {r}
    /\ IF r.seq < newestDone
       THEN UNCHANGED <<matches, matchesLoadError, shown, newestDone, newestMatches>>
       ELSE /\ matches' = listOf(r)
            /\ matchesLoadError' = (IF r.answer[1].ok THEN matchesLoadError
                                    ELSE "Failed to load matches from Supabase.")
            /\ shown' = r.seq
            /\ newestDone' = r.seq
            /\ newestMatches' = listOf(r)
    /\ UNCHANGED <<matchRows, issued>>
    /\ reloadFrame

\* the await of refreshMatches returns or throws: setMatches
completeRefreshMatches(r) ==
    /\ r.answer # Null
    /\ requests' = requests \ {r}
    /\ matches' = listOf(r)
    /\ matchesLoadError' = (IF r.answer[1].ok THEN matchesLoadError
                            ELSE "Failed to load matches from Supabase.")
    /\ shown' = r.seq
    /\ newestDone' = (IF r.seq > newestDone THEN r.seq ELSE newestDone)
    /\ newestMatches' = (IF r.seq > newestDone THEN listOf(r) ELSE newestMatches)
    /\ UNCHANGED <<matchRows, issued>>
    /\ reloadFrame

NextReload ==
    \/ \E rows \in ReloadRowLists : backendWrite(rows)
    \/ startRefreshMatches
    \/ \E r \in requests : answerRequest(r)
    \/ \E r \in requests : completeRefreshMatches(r)

SpecReload == Init /\ [][NextReload]_vars

----------------------------------------------------------------------------
(* The attendance screen and the schedule builder on one device *)

\* the week typed into the attendance screen and the effect that reloads
\* the attendance of that week (loadAttendance)
setAttendanceWeek(w) ==
    /\ confirmDialog = Null
    /\ attendanceWeek' = w
    /\ \/ safeInt(w, 0) <= 0 /\ UNCHANGED attendanceMap
       \/ /\ safeInt(w, 0) > 0
          /\ \/ attendanceMap' = attendanceMapOf(fetchAttendanceForWeek(attendanceTable, safeInt(w, 0)))
             \/ attendanceMap' = attendanceFallback
    /\ UNCHANGED <<attendanceTable, standingsVars, scheduleVars, scoringVars, reloadVars,
                   teamAdminVars, scoreRowVars>>

toggleTeam(team) ==
    /\ confirmDialog = Null
    /\ safeInt(attendanceWeek, 0) > 0
    /\ LET w           == safeInt(attendanceWeek, 0)
           current     == IF team \in DOMAIN attendanceMap THEN attendanceMap[team] # FALSE ELSE TRUE
           nextPresent == ~current
           table       == upsertAttendanceRow(attendanceTable, w, team, nextPresent)
           reverted    == [t \in DOMAIN attendanceMap \cup {team} |->
                              IF t = team THEN current ELSE attendanceMap[t]]
       IN  \/ /\ attendanceTable' = table
              /\ attendanceMap' = attendanceMapOf(fetchAttendanceForWeek(table, w))
           \/ /\ attendanceMap' = reverted
              /\ UNCHANGED attendanceTable
           \/ /\ attendanceTable' = table
              /\ attendanceMap' = reverted
    /\ UNCHANGED <<attendanceWeek, standingsVars, scheduleVars, scoringVars, reloadVars,
                   teamAdminVars, scoreRowVars>>

NextAttendance ==
    \/ \E w \in AttendanceWeeks : setAttendanceWeek(w)
    \/ \E team \in AttendanceTeams : toggleTeam(team)
    \/ loadOnMount
    \/ \E f \in AttendanceForms \cup {CurrentForm} : saveOrUpdate(f)
    \/ confirmCancel

SpecAttendance == Init /\ [][NextAttendance]_vars

----------------------------------------------------------------------------
(* Vocabulary of the properties *)

StatFields == {"gamesPlayed", "wins", "losses", "pointsFor", "pointsAgainst"}

Stats(r) == [f \in StatFields |-> r[f]]

ZeroStats == [f \in StatFields |-> 0]

RECURSIVE SumStats(_)
SumStats(rs) ==
    IF rs = <<>> THEN ZeroStats
    ELSE LET rest == SumStats(Tail(rs))
         IN  [f \in StatFields |-> Head(rs)[f] + rest[f]]

TeamsIn(tot) == {tot[i].team : i \in 1..Len(tot)}

\* the statistics of team t in a totals map, zero when t has no entry
StatsIn(tot, t) ==
    LET i == IndexOfTeam(tot, t)
    IN  IF i = 0 THEN ZeroStats ELSE Stats(tot[i])

\* what the entry of t in tot holds beyond its entry in less
Added(tot, less, t) == [f \in StatFields |-> StatsIn(tot, t)[f] - StatsIn(less, t)[f]]

NonBlank(v) == \E i \in 1..Len(v) : ~IsSpace(v[i])

Slot(fields, i) == CASE i = 1 -> fields.g1 [] i = 2 -> fields.g2 [] OTHER -> fields.g3

BlankSlot(fields, i) ==
    CASE i = 1 -> [fields EXCEPT !.g1 = <<>>]
      [] i = 2 -> [fields EXCEPT !.g2 = <<>>]
      [] OTHER -> [fields EXCEPT !.g3 = <<>>]

EnteredSlots(s) == {i \in 1..3 : NonBlank(Slot(s.teamA, i)) /\ NonBlank(Slot(s.teamB, i))}

OneSidedSlots(s) == {i \in 1..3 : (Slot(s.teamA, i) # <<>>) # (Slot(s.teamB, i) # <<>>)}

HasVerifiedScore(k) == matches[k].id \in DOMAIN scores /\ scores[matches[k].id].verified

\* the matches that the fold takes: verified and not before the start week
CountedFrom(start) == {k \in 1..Len(matches) : HasVerifiedScore(k) /\ matches[k].week >= start}

CountedMatches == CountedFrom(startWeekForThisDevice(baseRows))

TotalsWith(sc) == computeTotals(matches, sc, baseRows, dbTeams)

ScoresWithout(id) == [k \in DOMAIN scores \ {id} |-> scores[k]]

ScoresWithSlotBlank(id, i) ==
    [scores EXCEPT ![id] = [@ EXCEPT !.teamA = BlankSlot(@, i), !.teamB = BlankSlot(@, i)]]

MatchesWithout(k) == SubSeq(matches, 1, k - 1) \o SubSeq(matches, k + 1, Len(matches))

\* the places of the output: <<table, position>>
Places(c) == UNION {{<<k, i>> : i \in 1..Len(c[k].rows)} : k \in 1..Len(c)}

RowAt(c, p) == c[p[1]].rows[p[2]]

PlacesOf(c, t) == {p \in Places(c) : RowAt(c, p).team = t}

Shown(c) == {RowAt(c, p).team : p \in Places(c)}

----------------------------------------------------------------------------
(* C1: for every verified, counted match and every game slot in which
   exactly one of the two score strings is non-empty, that slot adds nothing
   to any statistic of either team: the totals are those of the same scores
   with the slot empty on both sides. *)
C1_OneSidedSlotAddsNothing ==
    LET tot == Totals
    IN  \A k \in CountedMatches :
            \A i \in OneSidedSlots(scores[matches[k].id]) :
                TotalsWith(ScoresWithSlotBlank(matches[k].id, i)) = tot

C1_Witness ==
    \E k \in CountedMatches :
        LET s == scores[matches[k].id]
        IN  /\ EnteredSlots(s) # {}
            /\ \E i \in OneSidedSlots(s) : toN(Slot(s.teamA, i)) > 0
            /\ \E i \in OneSidedSlots(s) : toN(Slot(s.teamB, i)) > 0

----------------------------------------------------------------------------
(* C2: for every verified, counted match the amounts added to the two teams
   mirror each other: the same games played, A's wins are B's losses and
   the reverse, A's points for are B's points against and the reverse, and
   the two points-for together are the sum of both raw scores over exactly
   the entered slots. *)
SlotPoints(s, i) ==
    IF i \in EnteredSlots(s) THEN toN(Slot(s.teamA, i)) + toN(Slot(s.teamB, i)) ELSE 0

AddedByMatch(tot, k, t) == Added(tot, TotalsWith(ScoresWithout(matches[k].id)), t)

C2_MatchAddsAreMirrored ==
    LET tot == Totals
    IN  \A k \in CountedMatches :
            LET m    == matches[k]
                s    == scores[m.id]
                less == TotalsWith(ScoresWithout(m.id))
                a    == Added(tot, less, Trim(m.teamA))
                b    == Added(tot, less, Trim(m.teamB))
            IN  Trim(m.teamA) # Trim(m.teamB) =>
                    /\ a.gamesPlayed = b.gamesPlayed
                    /\ a.wins = b.losses
                    /\ a.losses = b.wins
                    /\ a.pointsFor = b.pointsAgainst
                    /\ a.pointsAgainst = b.pointsFor
                    /\ a.pointsFor + b.pointsFor
                         = SlotPoints(s, 1) + SlotPoints(s, 2) + SlotPoints(s, 3)

C2_Witness ==
    \E k \in CountedMatches :
        LET m == matches[k]
            s == scores[m.id]
            a == AddedByMatch(Totals, k, Trim(m.teamA))
        IN  /\ a.gamesPlayed > 0
            /\ a.wins # a.losses
            /\ a.pointsFor # a.pointsAgainst
            /\ \E i \in (1..3) \ EnteredSlots(s) : toN(Slot(s.teamA, i)) > 0

----------------------------------------------------------------------------
(* C3: a match with no score row, with an unverified score row or with a
   week before the start week adds nothing to any team's totals, whatever
   scores it holds: every team's statistics are what they are without the
   match. *)
C3_OnlyVerifiedFromStartWeek ==
    LET tot == Totals
    IN  \A k \in (1..Len(matches)) \ CountedMatches :
            LET less == computeTotals(MatchesWithout(k), scores, baseRows, dbTeams)
            IN  \A t \in TeamsIn(tot) : StatsIn(tot, t) = StatsIn(less, t)

C3_Witness ==
    /\ \E k \in 1..Len(matches) :
           /\ matches[k].id \in DOMAIN scores
           /\ ~scores[matches[k].id].verified
           /\ EnteredSlots(scores[matches[k].id]) # {}
    /\ CountedMatches # {}

C3_WitnessBeforeStart ==
    /\ \E k \in 1..Len(matches) :
           /\ HasVerifiedScore(k)
           /\ matches[k].week < startWeekForThisDevice(baseRows)
           /\ EnteredSlots(scores[matches[k].id]) # {}
    /\ CountedMatches # {}

----------------------------------------------------------------------------
(* C4: the start week is 2 when some baseline row has a non-zero statistic
   and 1 otherwise, and the statistics of the baseline rows are added to the
   totals exactly in the first case: every team's statistics are those of
   its baseline rows (first case only) plus those of its verified matches
   from week 2 (first case) or from week 1 (second case). *)
HasNonZeroStat == \E i \in 1..Len(baseRows) : \E f \in StatFields : baseRows[i][f] # 0

StartWeekByRule == IF HasNonZeroStat THEN 2 ELSE 1

BaselineOf(t) == SelectSeq(baseRows, LAMBDA r : r.team = t)

RECURSIVE AddsFor(_, _, _)
\* the additions to team t of the verified matches among ms from week start
AddsFor(ms, t, start) ==
    IF ms = <<>> THEN <<>>
    ELSE LET m       == Head(ms)
             counted == /\ m.id \in DOMAIN scores
                        /\ scores[m.id].verified
                        /\ m.week >= start
             adds    == matchAdds(m, scores[m.id])
         IN  (IF counted /\ Trim(m.teamA) = t THEN <<adds.a>> ELSE <<>>)
               \o (IF counted /\ Trim(m.teamB) = t THEN <<adds.b>> ELSE <<>>)
               \o AddsFor(Tail(ms), t, start)

ExpectedStats(t, start, withBaseline) ==
    SumStats((IF withBaseline THEN BaselineOf(t) ELSE <<>>) \o AddsFor(matches, t, start))

C4_BaselineOrWeekOne ==
    LET tot == Totals
    IN  /\ startWeekForThisDevice(baseRows) = StartWeekByRule
        /\ \A t \in TeamsIn(tot) :
               StatsIn(tot, t) = ExpectedStats(t, StartWeekByRule, HasNonZeroStat)

C4_Witness ==
    /\ \E i \in 1..Len(baseRows) : baseRows[i].gamesPlayed > 0 /\ baseRows[i].team = NameA
    /\ \E k \in 1..Len(matches) :
           /\ HasVerifiedScore(k)
           /\ matches[k].week = 1
           /\ Trim(matches[k].teamA) = NameA
           /\ EnteredSlots(scores[matches[k].id]) # {}
    /\ \E k \in CountedMatches : EnteredSlots(scores[matches[k].id]) # {}

----------------------------------------------------------------------------
(* C5: a team is displayed in the division named by the move for the team
   with the highest effective week among its moves with an effective week
   not after asOfWeek, the highest week of a match with a verified score
   (1 when there is none); without such a move it is displayed in its
   original division. *)
VerifiedWeeks == {matches[k].week : k \in {j \in 1..Len(matches) : HasVerifiedScore(j)}}

AsOfWeek == IF VerifiedWeeks = {} THEN 1
            ELSE CHOOSE w \in VerifiedWeeks : \A v \in VerifiedWeeks : v <= w

MovesOf(t) == {i \in 1..Len(divisionMoves) : Trim(divisionMoves[i].team) = t}

EligibleMoves(t, w) == {i \in MovesOf(t) : divisionMoves[i].effectiveWeek <= w}

LatestMoves(t, w) ==
    {i \in EligibleMoves(t, w) :
        \A j \in EligibleMoves(t, w) :
            divisionMoves[j].effectiveWeek <= divisionMoves[i].effectiveWeek}

DisplayDivisions(c, t) == {c[p[1]].division : p \in PlacesOf(c, t)}

C5_DisplayDivisionAsOfWeek ==
    LET c   == Computed
        tot == Totals
        w   == AsOfWeek
    IN  \A n \in 1..Len(tot) :
            LET t == tot[n].team
            IN  /\ Cardinality(PlacesOf(c, t)) = 1
                /\ DisplayDivisions(c, t) \subseteq
                       (IF EligibleMoves(t, w) = {} THEN {tot[n].originalDivision}
                        ELSE {divisionMoves[i].toDivision : i \in LatestMoves(t, w)})

C5_Witness ==
    LET c == Computed
        w == AsOfWeek
    IN  \E t \in Shown(c) :
            /\ \E i \in MovesOf(t) :
                   /\ divisionMoves[i].effectiveWeek > w
                   /\ divisionMoves[i].toDivision \notin DisplayDivisions(c, t)
            /\ \E i \in LatestMoves(t, w) :
                   /\ divisionMoves[i].toDivision \in DisplayDivisions(c, t)
                   /\ \E n \in 1..Len(Totals) :
                          /\ Totals[n].team = t
                          /\ Totals[n].originalDivision # divisionMoves[i].toDivision

----------------------------------------------------------------------------
(* C6: the totals are kept per trimmed team name: a team has one row, whose
   statistics are the sum over all its counted matches whatever the division
   of each match, and the division moves change only the table a row is
   listed in: the rows and their statistics are those computed without any
   move. *)
RowStats(c) == {[team |-> RowAt(c, p).team, stats |-> Stats(RowAt(c, p))] : p \in Places(c)}

C6_TotalsFollowTheTeam ==
    LET c      == Computed
        noMove == computedOf(matches, scores, baseRows, <<>>, dbTeams)
        start  == startWeekForThisDevice(baseRows)
        based  == baselineHasStats(baseRows)
    IN  /\ \A t \in Shown(c) :
               /\ Cardinality(PlacesOf(c, t)) = 1
               /\ \A p \in PlacesOf(c, t) :
                      Stats(RowAt(c, p)) = ExpectedStats(t, start, based)
        /\ RowStats(c) = RowStats(noMove)
        /\ Cardinality(Places(c)) = Cardinality(Places(noMove))

C6_Witness ==
    LET c == Computed
    IN  \E k1, k2 \in CountedMatches :
            /\ matches[k1].division # matches[k2].division
            /\ Trim(matches[k1].teamA) = Trim(matches[k2].teamA)
            /\ matches[k1].teamA # matches[k2].teamA
            /\ EnteredSlots(scores[matches[k1].id]) # {}
            /\ EnteredSlots(scores[matches[k2].id]) # {}
            /\ EligibleMoves(Trim(matches[k1].teamA), AsOfWeek) # {}
            /\ \E p \in PlacesOf(c, Trim(matches[k1].teamA)) :
                   /\ c[p[1]].division \notin {matches[k1].division, matches[k2].division}
                   /\ RowAt(c, p).gamesPlayed
                        = Cardinality(EnteredSlots(scores[matches[k1].id]))
                            + Cardinality(EnteredSlots(scores[matches[k2].id]))

----------------------------------------------------------------------------
(* C7: in each division table every row stands before every later row in
   this order: rows with games before rows without any game whatever their
   other fields; then more wins first; then fewer losses; then more points
   for; then fewer points against; then the team names in ascending
   order. *)
Precedes(x, y) ==
    IF (x.gamesPlayed = 0) # (y.gamesPlayed = 0) THEN y.gamesPlayed = 0
    ELSE IF x.wins # y.wins THEN x.wins > y.wins
    ELSE IF x.losses # y.losses THEN x.losses < y.losses
    ELSE IF x.pointsFor # y.pointsFor THEN x.pointsFor > y.pointsFor
    ELSE IF x.pointsAgainst # y.pointsAgainst THEN x.pointsAgainst < y.pointsAgainst
    ELSE localeCompare(x.team, y.team) < 0

C7_TablesAreOrdered ==
    LET c == Computed
    IN  \A k \in 1..Len(c) :
            \A i, j \in 1..Len(c[k].rows) :
                i < j => Precedes(c[k].rows[i], c[k].rows[j])

C7_Witness ==
    LET c == Computed
    IN  \E k \in 1..Len(c) :
            \E i, j, l \in 1..Len(c[k].rows) :
                /\ i < j /\ j < l
                /\ c[k].rows[i].gamesPlayed > 0
                /\ Stats(c[k].rows[i]) = Stats(c[k].rows[j])
                /\ c[k].rows[l].gamesPlayed = 0
                /\ c[k].rows[l].wins > c[k].rows[i].wins

----------------------------------------------------------------------------
(* C8 as stated: the teams of the standings are the union of the hardcoded
   roster, the team names of the backend roster and the team names of the
   matches, each trimmed and the empty ones dropped. *)
RosterNames ==
    UNION {{DEFAULT_TEAMS_BY_DIVISION[d][i] : i \in 1..Len(DEFAULT_TEAMS_BY_DIVISION[d])}
              : d \in Division}

BackendNames == UNION {{dbTeams[d][i].name : i \in 1..Len(dbTeams[d])} : d \in Division}

MatchNames == UNION {{matches[k].teamA, matches[k].teamB} : k \in 1..Len(matches)}

BaselineNames == {baseRows[i].team : i \in 1..Len(baseRows)}

Trimmed(names) == {Trim(n) : n \in names} \ {<<>>}

C8_TeamsAreRosterBackendMatches ==
    Shown(Computed) = Trimmed(RosterNames \cup BackendNames \cup MatchNames)

(* C8, amended: the teams of the standings are the union of the hardcoded
   roster, the team names of the backend roster, the team names of the
   matches and the team names of the baseline rows, each trimmed and the
   empty ones dropped; each of them has a row, with or without games. *)
C8_TeamsIncludeBaselineRows ==
    Shown(Computed)
      = Trimmed(RosterNames \cup BackendNames \cup MatchNames \cup BaselineNames)

C8_Witness ==
    LET c == Computed
    IN  /\ \E t \in BaselineNames :
               /\ t \notin Trimmed(RosterNames \cup BackendNames \cup MatchNames)
               /\ \E p \in PlacesOf(c, t) : RowAt(c, p).gamesPlayed = 0
        /\ \E t \in Trimmed(MatchNames) :
               /\ t \notin Trimmed(RosterNames \cup BackendNames \cup BaselineNames)
               /\ \E p \in PlacesOf(c, t) : RowAt(c, p).gamesPlayed = 0
        /\ \E n \in BackendNames : Trim(n) = <<>>
        /\ \E n \in MatchNames : Trim(n) # n

----------------------------------------------------------------------------
(* C9: a team's original division is a division under which the backend
   roster lists it, if it lists it; else its division in the hardcoded
   roster; else Beginner.  Neither the division of a baseline row nor the
   division of a match the team plays changes it. *)
BackendDivisions(t) ==
    {d \in Division : \E i \in 1..Len(dbTeams[d]) : Trim(dbTeams[d][i].name) = t}

RosterDivisions(t) ==
    {d \in Division : \E i \in 1..Len(DEFAULT_TEAMS_BY_DIVISION[d]) :
                          Trim(DEFAULT_TEAMS_BY_DIVISION[d][i]) = t}

C9_OriginalDivisionIsSeeded ==
    LET tot == Totals
    IN  \A n \in 1..Len(tot) :
            tot[n].originalDivision \in
                (IF BackendDivisions(tot[n].team) # {} THEN BackendDivisions(tot[n].team)
                 ELSE IF RosterDivisions(tot[n].team) # {} THEN RosterDivisions(tot[n].team)
                 ELSE {"Beginner"})

C9_Witness ==
    LET tot == Totals
    IN  /\ \E n \in 1..Len(tot) :
               /\ BackendDivisions(tot[n].team) # {}
               /\ \E i \in 1..Len(baseRows) :
                      /\ baseRows[i].team = tot[n].team
                      /\ baseRows[i].gamesPlayed > 0
                      /\ baseRows[i].division # tot[n].originalDivision
               /\ \E k \in CountedMatches :
                      /\ Trim(matches[k].teamA) = tot[n].team
                      /\ matches[k].division # tot[n].originalDivision
        /\ \E n \in 1..Len(tot) :
               /\ BackendDivisions(tot[n].team) # {}
               /\ RosterDivisions(tot[n].team) # {}
               /\ tot[n].originalDivision \notin RosterDivisions(tot[n].team)

----------------------------------------------------------------------------
(* C10: a score string is entered exactly when it is not empty after
   trimming, on the standings screen and on the scoring screen alike: "0"
   is entered and the empty string is not, and a counted match adds one game
   played for each slot in which both strings are non-empty after trimming,
   a slot of "0" against any entered score included. *)
StoredStrings ==
    UNION {{Slot(scores[id].teamA, i) : i \in 1..3} \cup {Slot(scores[id].teamB, i) : i \in 1..3}
              : id \in DOMAIN scores}

ZeroSlots(s) ==
    {i \in EnteredSlots(s) : Trim(Slot(s.teamA, i)) = <<"0">> \/ Trim(Slot(s.teamB, i)) = <<"0">>}

C10_EnteredIffNonBlank ==
    LET tot == Totals
    IN  /\ \A v \in StoredStrings \cup {<<"0">>, <<>>} :
               /\ isEnteredScore(v) <=> NonBlank(v)
               /\ isEnteredScore_scoring(v) <=> NonBlank(v)
        /\ \A id \in DOMAIN scores :
               gameWins(scores[id].teamA, scores[id].teamB).gamesEntered
                 = Cardinality(EnteredSlots(scores[id]))
        /\ \A k \in CountedMatches :
               LET m    == matches[k]
                   less == TotalsWith(ScoresWithout(m.id))
               IN  Trim(m.teamA) # Trim(m.teamB) =>
                       /\ Added(tot, less, Trim(m.teamA)).gamesPlayed
                            = Cardinality(EnteredSlots(scores[m.id]))
                       /\ Added(tot, less, Trim(m.teamB)).gamesPlayed
                            = Cardinality(EnteredSlots(scores[m.id]))

C10_Witness ==
    \E k \in CountedMatches :
        LET s == scores[matches[k].id]
        IN  /\ ZeroSlots(s) # {}
            /\ \E i \in 1..3 : Slot(s.teamA, i) # <<>> /\ ~NonBlank(Slot(s.teamA, i))
            /\ AddedByMatch(Totals, k, Trim(matches[k].teamA)).gamesPlayed
                 = Cardinality(EnteredSlots(s))
            /\ Cardinality(EnteredSlots(s)) > 0

----------------------------------------------------------------------------
(* C11: an entered slot of a counted match in which both teams have the
   same numeric score adds one game played to both teams, adds nothing to
   the wins and the losses of either, and adds both scores to the points for
   and the points against. *)
TieSlots(s) == {i \in EnteredSlots(s) : toN(Slot(s.teamA, i)) = toN(Slot(s.teamB, i))}

TieSlotStats(v) ==
    [gamesPlayed |-> 1, wins |-> 0, losses |-> 0, pointsFor |-> v, pointsAgainst |-> v]

C11_TiedSlotCountsAsGameOnly ==
    LET tot == Totals
    IN  \A k \in CountedMatches :
            LET m == matches[k]
                s == scores[m.id]
            IN  Trim(m.teamA) # Trim(m.teamB) =>
                    \A i \in TieSlots(s) :
                        LET less == TotalsWith(ScoresWithSlotBlank(m.id, i))
                        IN  /\ Added(tot, less, Trim(m.teamA)) = TieSlotStats(toN(Slot(s.teamA, i)))
                            /\ Added(tot, less, Trim(m.teamB)) = TieSlotStats(toN(Slot(s.teamB, i)))

C11_Witness ==
    \E k \in CountedMatches :
        LET s == scores[matches[k].id]
        IN  /\ \E i \in TieSlots(s) : toN(Slot(s.teamA, i)) > 0
            /\ \E i \in TieSlots(s) : toN(Slot(s.teamA, i)) = 0
            /\ StatsIn(Totals, Trim(matches[k].teamA)).gamesPlayed >= Cardinality(TieSlots(s))

----------------------------------------------------------------------------
(* C12 as stated: a move whose team name differs from a team's name only in
   letter case or in surrounding blanks is applied to that team: the team
   is displayed in the division of the latest such move not after
   asOfWeek. *)
Lower(n) == [i \in 1..Len(n) |-> LowerOf(n[i])]

MovesIgnoringCase(t, w) ==
    {i \in 1..Len(divisionMoves) :
        /\ Lower(Trim(divisionMoves[i].team)) = Lower(t)
        /\ divisionMoves[i].effectiveWeek <= w}

LatestIgnoringCase(t, w) ==
    {i \in MovesIgnoringCase(t, w) :
        \A j \in MovesIgnoringCase(t, w) :
            divisionMoves[j].effectiveWeek <= divisionMoves[i].effectiveWeek}

C12_MovesMatchIgnoringCase ==
    LET c   == Computed
        tot == Totals
        w   == AsOfWeek
    IN  \A n \in 1..Len(tot) :
            MovesIgnoringCase(tot[n].team, w) # {} =>
                DisplayDivisions(c, tot[n].team)
                  \subseteq {divisionMoves[i].toDivision : i \in LatestIgnoringCase(tot[n].team, w)}

(* C12, amended: a move is applied to a team when its team name equals the
   team's name after trimming, whatever blanks surround it; a move whose
   name differs from the team's in letter case is not applied to it: with
   no other move the team stays in its original division. *)
C12_MovesMatchTrimmedNames ==
    LET c   == Computed
        tot == Totals
        w   == AsOfWeek
    IN  \A n \in 1..Len(tot) :
            LET t == tot[n].team
            IN  /\ \A i \in LatestMoves(t, w) :
                       divisionMoves[i].team # t =>
                           \E j \in LatestMoves(t, w) :
                               DisplayDivisions(c, t) = {divisionMoves[j].toDivision}
                /\ (MovesIgnoringCase(t, w) # {} /\ EligibleMoves(t, w) = {}) =>
                       DisplayDivisions(c, t) = {tot[n].originalDivision}

C12_Witness ==
    LET c   == Computed
        tot == Totals
        w   == AsOfWeek
    IN  /\ \E n \in 1..Len(tot) :
               /\ EligibleMoves(tot[n].team, w) = {}
               /\ \E i \in MovesIgnoringCase(tot[n].team, w) :
                      divisionMoves[i].toDivision \notin DisplayDivisions(c, tot[n].team)
        /\ \E n \in 1..Len(tot) :
               \E i \in LatestMoves(tot[n].team, w) :
                   /\ divisionMoves[i].team # tot[n].team
                   /\ DisplayDivisions(c, tot[n].team) = {divisionMoves[i].toDivision}
                   /\ tot[n].originalDivision # divisionMoves[i].toDivision

----------------------------------------------------------------------------
(* C13 as stated: with the single verified week-2 Intermediate match of a
   and b, scores (11, 9, empty) against (7, 11, empty), and no baseline
   statistics, both teams have 2 games played and a has 1 win, 1 loss,
   18 points for and 18 points against. *)
ScenarioScores ==
    [matchId  |-> "m1",
     teamA    |-> Fields(S11, S9, Empty),
     teamB    |-> Fields(S7, S11, Empty),
     verified |-> TRUE]

IsScenario ==
    /\ Len(matches) = 1
    /\ matches[1].week = 2
    /\ matches[1].division = "Intermediate"
    /\ matches[1].teamA = NameA
    /\ matches[1].teamB = NameB
    /\ DOMAIN scores = {matches[1].id}
    /\ scores[matches[1].id] = ScenarioScores
    /\ ~HasNonZeroStat

C13_ScenarioEighteenEighteen ==
    IsScenario =>
        /\ StatsIn(Totals, NameB).gamesPlayed = 2
        /\ StatsIn(Totals, NameA)
             = [gamesPlayed |-> 2, wins |-> 1, losses |-> 1, pointsFor |-> 18, pointsAgainst |-> 18]

(* C13, amended: in that scenario both teams have 2 games played, 1 win and
   1 loss; a has 20 points for (11 + 9) and 18 points against (7 + 11), and
   b has 18 points for and 20 points against. *)
C13_ScenarioTwentyEighteen ==
    IsScenario =>
        /\ StatsIn(Totals, NameA)
             = [gamesPlayed |-> 2, wins |-> 1, losses |-> 1, pointsFor |-> 20, pointsAgainst |-> 18]
        /\ StatsIn(Totals, NameB)
             = [gamesPlayed |-> 2, wins |-> 1, losses |-> 1, pointsFor |-> 18, pointsAgainst |-> 20]

C13_Witness ==
    /\ IsScenario
    /\ StatsIn(Totals, NameA).pointsFor = 20
    /\ \E k \in 1..Len(Computed) :
           /\ Len(Computed[k].rows) >= 2
           /\ Computed[k].rows[1].team = NameA
           /\ Computed[k].rows[2].team = NameB

----------------------------------------------------------------------------
(* Vocabulary of the properties of the schedule builder *)

FormInputs == Forms \cup {CurrentForm}

\* the saved matches other than the one being edited
Others == {m \in SavedOnes : editingId = Null \/ m.id # editingId[1]}

CourtTakenBy(f) ==
    {m \in Others : m.week = weekNum(f) /\ m.time = f.time /\ m.court = f.court}

TeamTakenBy(f) ==
    {m \in Others : /\ m.week = weekNum(f) /\ m.division = f.division /\ m.time = f.time
                    /\ {f.teamA, f.teamB} \cap {m.teamA, m.teamB} # {}}

Complete(f) ==
    /\ weekNum(f) > 0 /\ f.time # "" /\ f.court # 0
    /\ f.teamA # <<>> /\ f.teamB # <<>> /\ f.teamA # f.teamB

MarkedOut(f) ==
    \E t \in {f.teamA, f.teamB} :
        LET att == loadAttendanceForTypedWeek(weekNum(f))
        IN  t \in DOMAIN att /\ ~att[t]

NoBackendWrite == matchesTable' = matchesTable /\ writes' = writes

Rejected == confirmDialog' = Null /\ errorMsg' # NoMsg /\ NoBackendWrite

\* C14: a save attempt is rejected without a backend write whenever a saved
\* match other than the edited one has the week, the time and the court of
\* the candidate, whatever its division; when the form is complete, no
\* selected team is marked OUT and none is booked in the slot, the message
\* is the court-conflict message.
C14_CourtBookedInAnyDivision ==
    [][\A f \in FormInputs :
          saveOrUpdate(f) /\ CourtTakenBy(f) # {} =>
              /\ Rejected
              /\ Complete(f) /\ ~MarkedOut(f) /\ TeamTakenBy(f) = {} =>
                    \E m \in CourtTakenBy(f) :
                        errorMsg' = Msg("Court is already booked", weekNum(f), f.time,
                                        f.court, m.division)]_vars

\* the court-conflict message names a division other than the selected one
C14_Witness ==
    /\ errorMsg.kind = "Court is already booked"
    /\ errorMsg.division # division
    /\ \E m \in CourtTakenBy(CurrentForm) : m.division # division

\* C15: a save attempt is rejected without a backend write whenever a saved
\* match other than the edited one, in the week, division and time of the
\* candidate, contains the candidate's teamA or teamB.
C15_TeamBookedInSlot ==
    [][\A f \in FormInputs : saveOrUpdate(f) /\ TeamTakenBy(f) # {} => Rejected]_vars

\* a complete form with both teams present whose team plays in the slot on
\* another court
C15_Witness ==
    /\ errorMsg.kind = "already scheduled"
    /\ Complete(CurrentForm)
    /\ TeamTakenBy(CurrentForm) # {}
    /\ CourtTakenBy(CurrentForm) = {}

\* a step puts a match row into the backend table that was not there
MatchWritten ==
    \E i \in 1..Len(matchesTable') :
        \A j \in 1..Len(matchesTable) : matchesTable'[i] # matchesTable[j]

\* C16: a save attempt ends at the first check that applies, in the order
\* form completeness, attendance, team booked in the slot, court or team
\* conflict, confirmation; it writes nothing itself.  A confirmation is open
\* only for a complete form with no team marked OUT and no team booked in
\* the slot, and after the screen is mounted a match is written only from
\* an open confirmation: a blocked attempt has no way to a backend write.
C16_ChecksInOrder ==
    /\ [][\A f \in FormInputs :
             saveOrUpdate(f) =>
                /\ NoBackendWrite
                /\ IF ~Complete(f)
                   THEN errorMsg' = IncompleteMsg /\ confirmDialog' = Null
                   ELSE IF MarkedOut(f)
                   THEN /\ errorMsg' = Msg("marked OUT", weekNum(f), "", 0, "")
                        /\ confirmDialog' = Null
                   ELSE IF TeamTakenBy(f) # {}
                   THEN /\ errorMsg' = Msg("already scheduled", weekNum(f), f.time, 0, f.division)
                        /\ confirmDialog' = Null
                   ELSE IF CourtTakenBy(f) # {}
                   THEN /\ errorMsg'.kind = "Court is already booked"
                        /\ confirmDialog' = Null
                   ELSE errorMsg' = NoMsg /\ confirmDialog' # Null]_vars
    /\ [][mounted /\ MatchWritten => confirmDialog # Null]_vars
    /\ [](confirmDialog # Null =>
             /\ Complete(CurrentForm)
             /\ ~MarkedOut(CurrentForm)
             /\ TeamTakenBy(CurrentForm) = {}
             /\ CourtTakenBy(CurrentForm) = {})

\* the attendance message is shown although a selected team is also booked
\* in the slot
C16_Witness ==
    /\ errorMsg.kind = "marked OUT"
    /\ confirmDialog = Null
    /\ Complete(CurrentForm)
    /\ TeamTakenBy(CurrentForm) # {}

\* the saved matches, other than the edited one, between teams a and b in
\* either order
Meetings(a, b) ==
    {m \in Others : {Trim(m.teamA), Trim(m.teamB)} = {Trim(a), Trim(b)}}

Swapped(f) == Form(f.week, f.division, f.time, f.court, f.teamB, f.teamA)

\* the one-time import of the legacy matches when the screen opens
LegacyImport ==
    /\ ~mounted /\ mounted' /\ ~migrated
    /\ matchesTable = <<>>
    /\ matchesTable' = [i \in 1..Len(legacyMatches) |-> savedMatchToRow(sortMatches(legacyMatches)[i])]

Accepted == confirmDialog # Null /\ confirmDialog' = Null

Declined == confirmCancel

ConfirmationNamesThePair ==
    confirmDialog # Null =>
        /\ confirmDialog[1].seasonCount = Cardinality(Meetings(teamA, teamB))
        /\ confirmDialog[1].weeks = {m.week : m \in Meetings(teamA, teamB)}
        /\ confirmDialog[1].isDupThisWeek =
               (\E m \in Meetings(teamA, teamB) : m.week = weekNum(CurrentForm))
        /\ confirmDialog[1] = confirmMessage(Swapped(CurrentForm))

\* C17 as stated: every match row the screen puts into the backend follows
\* an accepted confirmation.
C17_WrittenOnlyAfterConfirmation ==
    /\ [][MatchWritten => Accepted]_vars
    /\ [][Declined => UNCHANGED <<matchesTable, savedMatches>>]_vars
    /\ []ConfirmationNamesThePair

\* C17: a match row is put into the backend only by an accepted
\* confirmation or by the one-time import of the legacy matches at mount;
\* declining the confirmation leaves the backend and the saved list as they
\* were; the confirmation shows the number of saved meetings of the
\* unordered pair, their weeks and whether one is in the typed week, the
\* same for (A, B) and (B, A).
C17_WrittenAfterConfirmationOrImport ==
    /\ [][MatchWritten => Accepted \/ LegacyImport]_vars
    /\ [][Declined => UNCHANGED <<matchesTable, savedMatches>>]_vars
    /\ []ConfirmationNamesThePair

\* the confirmation for (b, a) counts the saved meeting of " a" and b
C17_Witness ==
    /\ confirmDialog # Null
    /\ confirmDialog[1].seasonCount = 1
    /\ confirmDialog[1].isDupThisWeek
    /\ localeCompare(teamA, teamB) > 0
    /\ \E m \in Meetings(teamA, teamB) : m.teamA # teamB /\ Trim(m.teamA) = teamB

\* the match being edited, when the form still holds its values
SameAsEdited(f) ==
    \E x \in SavedOnes :
        /\ editingId = Some(x.id)
        /\ x.week = weekNum(f) /\ x.division = f.division /\ x.time = f.time
        /\ x.court = f.court /\ x.teamA = f.teamA /\ x.teamB = f.teamB

RowsWithId(table, id) == {i \in 1..Len(table) : table[i].id = id}

\* C20: while a match X is edited, X takes no part in the court check, the
\* team check, the booked-slot set and the count of previous meetings:
\* saving the form with X's own values opens the confirmation unless
\* another match or the attendance blocks it, and the count leaves X out;
\* the accepted save leaves one row with X's id, holding the form, and
\* the other rows as they were.
C20_EditedMatchIsExcluded ==
    /\ [][\A f \in FormInputs :
             /\ saveOrUpdate(f)
             /\ SameAsEdited(f)
             /\ Complete(f) /\ ~MarkedOut(f)
             /\ TeamTakenBy(f) = {} /\ CourtTakenBy(f) = {}
             => /\ confirmDialog' # Null
                /\ errorMsg' = NoMsg
                /\ confirmDialog'[1].seasonCount = Cardinality(Meetings(f.teamA, f.teamB))]_vars
    /\ [][editingId # Null /\ Accepted /\ writes' # writes =>
             LET x == editingId[1]
             IN  /\ Cardinality(RowsWithId(matchesTable', x)) = 1
                 /\ \A i \in RowsWithId(matchesTable', x) :
                        matchesTable'[i] = savedMatchToRow(recordOf(x, CurrentForm))
                 /\ {matchesTable'[i] : i \in 1..Len(matchesTable') \ RowsWithId(matchesTable', x)}
                      = {matchesTable[i] : i \in 1..Len(matchesTable) \ RowsWithId(matchesTable, x)}
                 /\ Len(matchesTable') =
                      Len(matchesTable) + (IF RowsWithId(matchesTable, x) = {} THEN 1 ELSE 0)]_vars

\* the confirmation is open for the edited match saved with its own values
C20_Witness ==
    /\ editingId # Null
    /\ confirmDialog # Null
    /\ SameAsEdited(CurrentForm)

----------------------------------------------------------------------------
(* Vocabulary of the properties of the scoring screen *)

\* unset, or the decimal string of 0, 1, ..., 11
ValidScores ==
    {<<>>, <<"0">>, <<"1">>, <<"2">>, <<"3">>, <<"4">>, <<"5">>, <<"6">>, <<"7">>, <<"8">>,
     <<"9">>, <<"1", "0">>, <<"1", "1">>}

FieldsAreValid(fields) == \A g \in ScoreFieldNames : fields[g] \in ValidScores

\* C18: a draft score is sanitizeAndClampScore of the text typed into the
\* score box, whatever the text: it is unset or the decimal string of an
\* integer from 0 to 11, and a second application leaves it as it is; so
\* every score of a row of match_scores is unset or in 0..11 as well.
C18_ScoresAreUnsetOrZeroToEleven ==
    /\ \A key \in DOMAIN draftScores :
          /\ FieldsAreValid(draftScores[key])
          /\ \A g \in ScoreFieldNames :
                sanitizeAndClampScore(draftScores[key][g]) = draftScores[key][g]
    /\ \A id \in DOMAIN matchScoresTable :
          /\ FieldsAreValid(matchScoresTable[id].teamA)
          /\ FieldsAreValid(matchScoresTable[id].teamB)

\* a row of match_scores holds 11 for game 1 of team A
C18_Witness ==
    /\ "m1" \in DOMAIN matchScoresTable
    /\ matchScoresTable["m1"].teamA.g1 = <<"1", "1">>
    /\ matchScoresTable["m1"].teamA.g2 = <<>>

\* the client is admin-unlocked or its selected team is, after trimming,
\* one of the two teams of the match
Authorised(m) ==
    \/ isAdmin
    \/ myTeam # <<>> /\ Trim(myTeam) \in {Trim(m.teamA), Trim(m.teamB)}

Submitter ==
    IF isAdmin THEN [admin |-> TRUE, player |-> "", team |-> <<>>]
    ELSE [admin |-> FALSE, player |-> myPlayerName, team |-> myTeam]

\* C19: Verify & Save of a match by a client that is neither admin-unlocked
\* nor of one of its two teams (names compared after trimming) opens no
\* confirmation and leaves match_scores and the persisted scores as they
\* were; a row of match_scores changes only for a match the client is
\* authorised for, and the row written is verified and names the submitter.
C19_OnlyAuthorisedClientsWrite ==
    /\ [][\A m \in ScoringMatches :
             onVerifyAndSave(m) /\ ~Authorised(m) =>
                /\ verifyDialog' = Null
                /\ UNCHANGED <<matchScoresTable, persisted>>]_vars
    /\ [][matchScoresTable' # matchScoresTable =>
             \E m \in ScoringMatches :
                 /\ Authorised(m)
                 /\ m.id \in DOMAIN matchScoresTable'
                 /\ matchScoresTable'[m.id].verified
                 /\ matchScoresTable'[m.id].verifiedBy = Submitter
                 /\ DOMAIN matchScoresTable' = DOMAIN matchScoresTable \cup {m.id}
                 /\ \A id \in DOMAIN matchScoresTable \ {m.id} :
                        matchScoresTable'[id] = matchScoresTable[id]]_vars

\* team a saved the scores of its match against " a"'s stored name and was
\* refused on the other match
C19_Witness ==
    /\ lastAlert = "Not allowed"
    /\ ~isAdmin
    /\ myTeam = NameA
    /\ "m1" \in DOMAIN matchScoresTable
    /\ matchScoresTable["m1"].verifiedBy.team = NameA
    /\ "m2" \notin DOMAIN matchScoresTable
    /\ \A m \in ScoringMatches : myTeam \notin {m.teamA, m.teamB}

\* a step of doSave whose upsert failed
UpsertFailed == confirmDialog # Null /\ errorMsg' = UpsertFailedMsg

\* C23: when the backend upsert in doSave fails, the save does not complete:
\* the backend, the saved-match list, the editing id and the list week filter
\* keep their values, no success status is set, the error message is set and
\* the request is not retried (the confirmation is closed and nothing was
\* written).
C23_FailedUpsertCompletesNothing ==
    [][UpsertFailed =>
          /\ matchesTable' = matchesTable
          /\ writes' = writes
          /\ savedMatches' = savedMatches
          /\ editingId' = editingId
          /\ listWeekFilter' = listWeekFilter
          /\ statusMsg' = statusMsg
          /\ statusMsg' = ""
          /\ errorMsg' # NoMsg
          /\ confirmDialog' = Null]_vars

\* an update of a saved match failed at the upsert: the edit mode is kept
C23_Witness ==
    /\ errorMsg = UpsertFailedMsg
    /\ editingId # Null
    /\ savedMatches # <<>>
    /\ listWeekFilter # week
    /\ confirmDialog = Null

----------------------------------------------------------------------------
(* Properties of the schedule builder with Clear Week (SpecBuilder) *)

SameCourtSlot(r1, r2) == r1.week = r2.week /\ r1.time = r2.time /\ r1.court = r2.court

\* C21: after any sequence of save, update, delete and clear-week operations
\* of one client that starts from an empty matches table, where any backend
\* request (the reload after a write included) may fail, no two rows of the
\* matches table share the same week, time and court.
C21_NoTwoRowsShareACourtSlot ==
    \A i, j \in 1..Len(matchesTable) :
        i # j => ~SameCourtSlot(matchesTable[i], matchesTable[j])

IsNumeral(s) == s # <<>> /\ \A i \in 1..Len(s) : s[i] \in Digits

NumeralOrZero(s) == IF IsNumeral(s) THEN DigitsValue(s) ELSE 0

\* the week Clear Week is about: the list week filter if it names a week,
\* else the typed week
TargetWeek ==
    IF NumeralOrZero(listWeekFilter) > 0 THEN NumeralOrZero(listWeekFilter)
    ELSE NumeralOrZero(week)

DeleteTyped == Trim(clearWeekConfirmText) = <<"D", "e", "l", "e", "t", "e">>

RowsOfOtherWeeks(table, w) == SelectSeq(table, LAMBDA r : r.week # w)

RowsOfWeek(table, w) == SelectSeq(table, LAMBDA r : r.week = w)

\* C30: confirmClearWeek deletes matches only when the confirmation text,
\* trimmed, is exactly "Delete" and the target week (the list week filter if
\* numeric, else the typed week) is above 0; it then deletes only matches of
\* that week and leaves every match of every other week as it was; with any
\* other confirmation text it deletes nothing.
C30_ClearWeekDeletesOnlyTheTargetWeek ==
    [][confirmClearWeek =>
          /\ RowsOfOtherWeeks(matchesTable', TargetWeek) = RowsOfOtherWeeks(matchesTable, TargetWeek)
          /\ \/ matchesTable' = matchesTable
             \/ /\ DeleteTyped
                /\ TargetWeek > 0
                /\ RowsOfWeek(matchesTable', TargetWeek) = <<>>
          /\ ~DeleteTyped => matchesTable' = matchesTable /\ savedMatches' = savedMatches]_vars

\* week 1 was cleared while the typed week is 2: the match of week 2 is
\* still in the backend and in the list
C30_Witness ==
    /\ statusMsg = "Cleared Week matches."
    /\ listWeekFilter = <<"1">>
    /\ week = <<"2">>
    /\ matchesTable = <<TwoWeeksTable[2]>>
    /\ Len(savedMatches) = 1

----------------------------------------------------------------------------
(* Properties of the attendance screen with the schedule builder (SpecAttendance) *)

\* the attendance row of the team for the week has present = false
RecordedAbsent(w, team) ==
    \E r \in attendanceTable : r.week = w /\ r.team = team /\ r.present = FALSE

\* C26: if a team is recorded absent for week w through the attendance
\* screen, a later attempt in the schedule builder to save a match of week w
\* with that team is blocked by the attendance hard block: no confirmation
\* is open for a match with a team recorded absent for its week.
C26_AbsentTeamIsBlocked ==
    confirmDialog # Null =>
        /\ ~RecordedAbsent(weekNum(CurrentForm), teamA)
        /\ ~RecordedAbsent(weekNum(CurrentForm), teamB)

----------------------------------------------------------------------------
(* Properties of overlapping reloads (SpecReload) *)

\* C22: reloads are neither cancelled nor sequenced: a request leaves the
\* requests in flight only by completing, and the response of every
\* completing request replaces the list of the screen, also when a request
\* started later has completed before; so when the older of two reloads
\* completes last the screen holds the older response.
C22_ReloadsAreNotSequenced ==
    [][\A r \in requests :
          r \notin requests' /\ r.answer # Null =>
              /\ matches' = listOf(r)
              /\ (r.seq < newestDone => shown' < newestDone')]_vars

\* the older request completed last: the screen holds its response, which
\* is neither what the newer request delivered nor what the backend holds
C22_Witness ==
    /\ requests = {}
    /\ shown < newestDone
    /\ matches # newestMatches
    /\ newestMatches = parseMatches(matchRows)
    /\ matchesLoadError = ""

----------------------------------------------------------------------------
(* Properties of the Manage Teams screen (SpecTeamAdmin) *)

Mentions(name) ==
    [matches    |-> \E i \in 1..Len(storedMatches) :
                       storedMatches[i].teamA = name \/ storedMatches[i].teamB = name,
     moves      |-> \E i \in 1..Len(storedMoves) : storedMoves[i].team = name,
     attendance |-> {w \in DOMAIN storedAttendance : name \in DOMAIN storedAttendance[w]}]

\* a confirmDelete step that deleted the team in the backend and then failed:
\* the delete box is still open
DeleteFailedPartway ==
    /\ showDeleteBox
    /\ showDeleteBox'
    /\ teamsTable' # teamsTable

\* C24: delete-team is not atomic: when a step after the backend team delete
\* fails, the steps done before stay applied (the team stays deleted, the
\* keys written stay written: matches before scores before moves before the
\* attendance of each week in turn), the remaining steps are not executed
\* (the last of them at least is missing), nothing is rolled back, and only
\* the error message is set: no status, the delete box as it was, the team
\* list of the screen not reloaded.
C24_DeleteTeamIsNotAtomic ==
    [][DeleteFailedPartway =>
          LET name == Trim(deleteTeamName)
              left == Mentions(name)'
              was  == Mentions(name)
          IN  /\ \A r \in teamsTable' : r.id # deleteTeamId
              /\ storedScores' # storedScores => ~left.matches
              /\ storedMoves' # storedMoves => storedScores' # storedScores
              /\ left.attendance # was.attendance => storedMoves' # storedMoves
              /\ \A w \in was.attendance \ left.attendance :
                    \A v \in was.attendance : v < w => v \notin left.attendance
              /\ left.attendance # {}
              /\ \A i \in 1..Len(storedMatches') : \E j \in 1..Len(storedMatches) :
                    storedMatches'[i] = storedMatches[j]
              /\ adminError' # ""
              /\ adminStatus' = ""
              /\ UNCHANGED <<deleteTeamName, deleteTeamId, deleteConfirmText, adminDbTeams>>]_vars

\* the delete failed after the matches and the scores of team c were
\* rewritten: the team is gone from the backend, its division move and its
\* attendance are still on the device
C24_Witness ==
    /\ showDeleteBox
    /\ deleteTeamName = NameC
    /\ teamsTable = {}
    /\ adminError = "AsyncStorage setItem failed"
    /\ ~Mentions(NameC).matches
    /\ DOMAIN storedScores = {3}
    /\ Mentions(NameC).moves
    /\ Mentions(NameC).attendance = {1, 2}

----------------------------------------------------------------------------
(* Properties of the readers of a stored score row (SpecScoreRow) *)

\* the label that goes with a number of entered slots
LabelOf(n) == IF n = 0 THEN Null ELSE IF n < 3 THEN Some("PARTIAL") ELSE Some("COMPLETED")

AllHaveRead == scoringReading # Null /\ resultsReading # Null /\ standingsReading # Null

(* C25: for every stored score row, the scoring screen, the results screen
   and the standings aggregator take the same game slots as entered, hence
   count the same number of entered games, and the scoring and the results
   screen show the label of that number: none for 0, PARTIAL for 1 or 2 and
   COMPLETED for 3. *)
C25_ReadersAgreeOnEnteredSlots ==
    AllHaveRead =>
        LET s == scoringReading[1]
            r == resultsReading[1]
            t == standingsReading[1]
        IN  /\ s.slots = r.slots /\ r.slots = t.slots
            /\ s.count = r.count /\ r.count = t.count
            /\ s.label = LabelOf(t.count)
            /\ r.label = LabelOf(t.count)

\* the readers agree on the rows the scoring screen writes, whose fields are
\* strings; they differ on a field that holds a JSON number
StringFields(v) == \A g \in Slots : v[g].type # "number"

ReadersAgreeOnStringRows ==
    (AllHaveRead /\ StringFields(storedScoreRow.team_a) /\ StringFields(storedScoreRow.team_b))
        => /\ scoringReading[1].slots = standingsReading[1].slots
           /\ resultsReading[1].slots = standingsReading[1].slots

----------------------------------------------------------------------------
(* Further properties of the standings (Spec) *)

KnownTeams == Trimmed(RosterNames \cup BackendNames \cup MatchNames \cup BaselineNames)

\* the division whose table lists the row at place p
DivisionAt(c, p) == c[p[1]].division

(* C27: every known team (a name of the hardcoded roster, of the backend
   roster, of a match or of a baseline row, trimmed) is listed in exactly one
   of the three division tables and exactly once in it, whatever the moves:
   the output has one table for each of the three divisions, every known
   team has exactly one place in them and every place holds a known team. *)
C27_EveryTeamInExactlyOneTable ==
    LET c == Computed
    IN  /\ Len(c) = 3
        /\ {c[k].division : k \in 1..3} = Division
        /\ \A t \in KnownTeams : Cardinality(PlacesOf(c, t)) = 1
        /\ Cardinality(Places(c)) = Cardinality(KnownTeams)

\* a team of the backend roster that also plays a match is moved and listed
\* in a division that is neither its roster division nor the match's, and a
\* match names a team in a non-trimmed spelling of a known team
C27_Witness ==
    LET c == Computed
    IN  /\ \E k \in 1..Len(matches) :
              LET t == Trim(matches[k].teamA)
              IN  /\ t \in Trimmed(BackendNames)
                  /\ EligibleMoves(t, AsOfWeek) # {}
                  /\ \E p \in PlacesOf(c, t) :
                         /\ DivisionAt(c, p) # matches[k].division
                         /\ \E i \in 1..Len(Totals) :
                                Totals[i].team = t /\ Totals[i].originalDivision # DivisionAt(c, p)
        /\ \E n \in MatchNames : Trim(n) # n /\ Trim(n) \in Trimmed(RosterNames \cup BackendNames)
        /\ baseRows # <<>>

----------------------------------------------------------------------------
\* the rows of the output, table after table
RECURSIVE RowsFrom(_, _)
RowsFrom(c, k) == IF k > Len(c) THEN <<>> ELSE c[k].rows \o RowsFrom(c, k + 1)

AllRows(c) == RowsFrom(c, 1)

(* C28: when no baseline row carries a statistic, the wins of all teams of
   the output add up to the losses of all teams, the points for add up to
   the points against, and no team has more wins and losses together than
   games played. *)
C28_WinsAndPointsBalance ==
    ~baselineHasStats(baseRows) =>
        LET rows == AllRows(Computed)
            sum  == SumStats(rows)
        IN  /\ sum.wins = sum.losses
            /\ sum.pointsFor = sum.pointsAgainst
            /\ \A i \in 1..Len(rows) : rows[i].wins + rows[i].losses <= rows[i].gamesPlayed

\* baseline rows without statistics are loaded, two matches are counted, a
\* team has a tied game and the teams won different numbers of games
C28_Witness ==
    LET rows == AllRows(Computed)
    IN  /\ baseRows # <<>>
        /\ ~baselineHasStats(baseRows)
        /\ Cardinality(CountedMatches) = 2
        /\ \E i \in 1..Len(rows) : rows[i].wins + rows[i].losses < rows[i].gamesPlayed
        /\ \E i \in 1..Len(rows) : rows[i].wins > rows[i].losses /\ rows[i].losses > 0
        /\ SumStats(rows).wins > 2

----------------------------------------------------------------------------
\* the lists with the elements of list in any order
Reorderings(list) ==
    LET D == 1..Len(list)
    IN  {[i \in D |-> list[f[i]]] : f \in {g \in [D -> D] : \A i, j \in D : g[i] = g[j] => i = j}}

\* the backend roster with the rows of each division in any order
RosterReorderings(teams) ==
    [Advanced : Reorderings(teams.Advanced), Intermediate : Reorderings(teams.Intermediate),
     Beginner : Reorderings(teams.Beginner)]

(* C29: the standings depend on the contents of the matches list, of the
   backend roster and of the baseline rows and not on their order: with the
   matches, the roster rows of each division and the baseline rows in any
   other order the output is the same, table by table and place by place. *)
C29_OrderOfInputsDoesNotMatter ==
    LET c == Computed
    IN  \A ms \in Reorderings(matches), base \in Reorderings(baseRows),
           teams \in RosterReorderings(dbTeams) :
            computedOf(ms, scores, base, divisionMoves, teams) = c

\* two counted matches of one team in two divisions, two baseline rows with
\* statistics and two roster rows in one division are loaded
C29_Witness ==
    /\ Len(matches) = 2
    /\ Cardinality(CountedMatches) = 2
    /\ matches[1].division # matches[2].division
    /\ Trim(matches[1].teamA) = Trim(matches[2].teamA)
    /\ Len(baseRows) = 2
    /\ baselineHasStats(baseRows)
    /\ baseRows[1].team # baseRows[2].team
    /\ \E d \in Division : Len(dbTeams[d]) = 2 /\ dbTeams[d][1] # dbTeams[d][2]
    /\ \E p \in Places(Computed) : RowAt(Computed, p).gamesPlayed > 3


============================================================================
